---------------------------- MODULE Spec2Model ----------------------------
(***************************************************************************)
(* A model of kalendis-mcp: the endpoint catalog, the type projector, the  *)
(* method renderer and the client assembler of src/generators/client.ts,   *)
(* the tool-call handler of src/server.ts, the run-time behaviour of the   *)
(* code that the generator emits, and the file writer writeFile.           *)
(*                                                                         *)
(* Source text is modelled as TLA+ strings, character for character; the   *)
(* JavaScript string methods the generator uses are defined below with     *)
(* the semantics of the language, on 1-based positions.                    *)
(***************************************************************************)
EXTENDS Integers, Sequences, FiniteSets, TLC

VARIABLES
  call,      \* generator: the last call of a generator function, with its result
  log,       \* server: the tool calls answered so far, oldest first
  clientEnv, \* emitted client: [target, KALENDIS_API_URL] of the process running it
  client,    \* emitted client: the KalendisClient object, once constructed
  pc,        \* emitted client: where the caller of the client stands
  sent,      \* emitted client: the network calls issued so far
  outcome,   \* emitted client: how the last constructor or request call ended
  disk,      \* file writer: the files and directories of the file system
  writers    \* file writer: the writeFile calls of the process, each with its position

vars == << call, log, clientEnv, client, pc, sent, outcome, disk, writers >>
genVars == << call >>
serverVars == << log >>
clientVars == << clientEnv, client, pc, sent, outcome >>
fileVars == << disk, writers >>

---------------------------------------------------------------------------
(* JavaScript strings.  SANY admits no backquote inside a string, so the   *)
(* backquote of an emitted template literal is written ~, a character the  *)
(* generator's source never uses.                                          *)

\* String.prototype.startsWith
StartsWith(s, p) == Len(s) >= Len(p) /\ SubSeq(s, 1, Len(p)) = p

\* String.prototype.endsWith
EndsWith(s, p) == Len(s) >= Len(p) /\ SubSeq(s, Len(s) - Len(p) + 1, Len(s)) = p

\* the positions at which p occurs in s
Occurrences(s, p) ==
  { i \in 1..(Len(s) - Len(p) + 1) : SubSeq(s, i, i + Len(p) - 1) = p }

\* String.prototype.indexOf, 1-based; 0 when p does not occur
IndexOf(s, p) ==
  LET occ == Occurrences(s, p)
  IN  IF occ = {} THEN 0 ELSE CHOOSE i \in occ : \A j \in occ : i <= j

\* String.prototype.includes
Includes(s, p) == Occurrences(s, p) # {}

\* String.prototype.replace with a string pattern: the first occurrence only
ReplaceFirst(s, p, r) ==
  LET i == IndexOf(s, p)
  IN  IF i = 0 THEN s
      ELSE SubSeq(s, 1, i - 1) \o r \o SubSeq(s, i + Len(p), Len(s))

\* String.prototype.slice(from) with from >= 0, and with a negative end
SliceFrom(s, from, dropEnd) ==
  IF from + 1 > Len(s) - dropEnd THEN "" ELSE SubSeq(s, from + 1, Len(s) - dropEnd)

\* Array.prototype.join
RECURSIVE Join(_, _)
Join(seq, sep) ==
  IF Len(seq) = 0 THEN ""
  ELSE IF Len(seq) = 1 THEN seq[1]
  ELSE seq[1] \o sep \o Join(Tail(seq), sep)

---------------------------------------------------------------------------
(* JavaScript values: a type tag and the value's String() form *)

Undefined == [ t |-> "undefined", v |-> "" ]
Str(s) == [ t |-> "string", v |-> s ]
Num(digits) == [ t |-> "number", v |-> digits ]

\* ToBoolean
Truthy(x) ==
  \/ x.t = "string" /\ x.v # ""
  \/ x.t = "number" /\ x.v \notin {"0", "NaN"}

\* String(x) of a value interpolated into a template
ToStr(x) == IF x.t = "undefined" THEN "undefined" ELSE x.v

\* a parameter default (typesPath: string = '...'): taken for undefined only
ParamOr(x, default) == IF x.t = "undefined" THEN default ELSE ToStr(x)

\* a thrown error, and a returned value
Throw(error) == [ threw |-> TRUE, value |-> error ]
Return(value) == [ threw |-> FALSE, value |-> value ]

---------------------------------------------------------------------------
(* The endpoint catalog *)

\* one entry of EndpointDefinition.params or EndpointDefinition.body
Field(key, type, required, description) ==
  [ key |-> key, type |-> type, required |-> required, description |-> description ]

\* ENDPOINTS in insertion order; hasParams and hasBody say whether the
\* optional members params and body are present.
ENDPOINTS ==
  <<
  [ name |-> "getUsersByAccountId",
    path |-> "/v1/user/getUsersByAccountId",
    method |-> "GET",
    description |-> "Get all users for the authenticated account",
    hasParams |-> FALSE,
    params |-> <<>>,
    hasBody |-> FALSE,
    body |-> <<>>,
    response |-> [ type |-> "{ data: User[]; meta: { total: number; apiVersion?: string } }",
                   description |-> "Users array with metadata" ],
    headers |-> << "x-api-key" >> ],
  [ name |-> "addUser",
    path |-> "/v1/user/addUser",
    method |-> "POST",
    description |-> "Create a new user",
    hasParams |-> FALSE,
    params |-> <<>>,
    hasBody |-> TRUE,
    body |-> <<
      Field("id", "string", FALSE,
            "User ID to set (optional, auto-generated if not provided)"),
      Field("name", "string", TRUE,
            "User name") >>,
    response |-> [ type |-> "User",
                   description |-> "Created user object" ],
    headers |-> << "x-api-key", "Content-Type" >> ],
  [ name |-> "updateUser",
    path |-> "/v1/user/updateUser",
    method |-> "PUT",
    description |-> "Update an existing user",
    hasParams |-> FALSE,
    params |-> <<>>,
    hasBody |-> TRUE,
    body |-> <<
      Field("id", "string", TRUE,
            "User ID to update"),
      Field("name", "string", FALSE,
            "New name"),
      Field("timeZone", "string", FALSE,
            "New timezone") >>,
    response |-> [ type |-> "User",
                   description |-> "Updated user object" ],
    headers |-> << "x-api-key", "Content-Type" >> ],
  [ name |-> "deleteUser",
    path |-> "/v1/user/deleteUser",
    method |-> "DELETE",
    description |-> "Delete a user",
    hasParams |-> TRUE,
    params |-> <<
      Field("id", "string", TRUE,
            "User ID to delete") >>,
    hasBody |-> FALSE,
    body |-> <<>>,
    response |-> [ type |-> "{message: string}",
                   description |-> "Deletion confirmation message" ],
    headers |-> << "x-api-key" >> ],
  [ name |-> "getAvailability",
    path |-> "/v1/availability/getAvailability",
    method |-> "GET",
    description |-> "Get availability for a specific user",
    hasParams |-> TRUE,
    params |-> <<
      Field("userId", "string", TRUE,
            "User ID to get availability for"),
      Field("start", "string", TRUE,
            "Start date for availability"),
      Field("end", "string", FALSE,
            "End date for availability"),
      Field("includeExceptions", "string", FALSE,
            "Include exceptions in calculation (true/false)"),
      Field("includeBookings", "string", FALSE,
            "Include bookings in calculation (true/false)"),
      Field("timezone", "string", FALSE,
            "Timezone for date interpretation") >>,
    hasBody |-> FALSE,
    body |-> <<>>,
    response |-> [ type |-> "Array<{start: string, end: string, timeZone: string, offset: number, segments: Array<{start: string, end: string, id?: string, recurring?: boolean, expiration?: string | null, daysOfWeek?: Types.DaysOfWeek[], timeZone?: string}>}>",
                   description |-> "Calculated availability windows with metadata" ],
    headers |-> << "x-api-key" >> ],
  [ name |-> "getAllAvailability",
    path |-> "/v1/availability/getAllAvailability",
    method |-> "GET",
    description |-> "Get availability for all users in the account",
    hasParams |-> TRUE,
    params |-> <<
      Field("start", "string", TRUE,
            "Start date to check from"),
      Field("end", "string", FALSE,
            "End date (defaults to 7 days after start)"),
      Field("timezone", "string", FALSE,
            "IANA timezone (defaults to America/New_York)") >>,
    hasBody |-> FALSE,
    body |-> <<>>,
    response |-> [ type |-> "Array<{userId: string, start: string, end: string, timeZone: string, offset: number, segments: Array<{start: string, end: string, id?: string, recurring?: boolean, expiration?: string | null, daysOfWeek?: Types.DaysOfWeek[]}>}>",
                   description |-> "Unmerged availability chunks per user with metadata" ],
    headers |-> << "x-api-key" >> ],
  [ name |-> "getMultiUserCalculatedAvailability",
    path |-> "/v1/availability/getMultiUserCalculatedAvailability",
    method |-> "POST",
    description |-> "Get calculated availability for multiple users",
    hasParams |-> FALSE,
    params |-> <<>>,
    hasBody |-> TRUE,
    body |-> <<
      Field("userIds", "string[]", TRUE,
            "Array of user IDs"),
      Field("start", "string", TRUE,
            "Start date to check from"),
      Field("end", "string", FALSE,
            "End date (omit for full day of start)"),
      Field("timezone", "string", FALSE,
            "IANA timezone (defaults to America/New_York)") >>,
    response |-> [ type |-> "Array<{userId: string, availability: Array<{start: string, end: string, timeZone: string, offset: number, segments: Array<{start: string, end: string, id?: string, recurring?: boolean, expiration?: string | null, daysOfWeek?: Types.DaysOfWeek[], timeZone?: string, originalItemOffset?: number}>}>, offset: number, timeZone: string}>",
                   description |-> "Availability per user with timezone, segments, and offsets" ],
    headers |-> << "x-api-key", "Content-Type" >> ],
  [ name |-> "getRecurringAvailabilityByDate",
    path |-> "/v1/availability/getRecurringAvailabilityByDate",
    method |-> "POST",
    description |-> "Get recurring availability based on cadence",
    hasParams |-> FALSE,
    params |-> <<>>,
    hasBody |-> TRUE,
    body |-> <<
      Field("userId", "string", TRUE,
            "User ID to check"),
      Field("start", "string", TRUE,
            "Start date"),
      Field("cadence", "string", TRUE,
            "DAILY or WEEKLY"),
      Field("frequency", "number", TRUE,
            "How often cadence occurs"),
      Field("numberOfOccurrences", "number", TRUE,
            "Times to check"),
      Field("timezone", "string", FALSE,
            "IANA timezone") >>,
    response |-> [ type |-> "Array<Array<{start: string, end: string, offset: number}>>",
                   description |-> "Nested arrays of availability per occurrence" ],
    headers |-> << "x-api-key", "Content-Type" >> ],
  [ name |-> "getMatchingAvailabilityByDate",
    path |-> "/v1/availability/getMatchingAvailabilityByDate",
    method |-> "POST",
    description |-> "Get overlapping availability for multiple users",
    hasParams |-> FALSE,
    params |-> <<>>,
    hasBody |-> TRUE,
    body |-> <<
      Field("userIds", "string[]", TRUE,
            "User IDs to check"),
      Field("start", "string", TRUE,
            "Start date"),
      Field("end", "string", FALSE,
            "End date"),
      Field("timezone", "string", FALSE,
            "IANA timezone") >>,
    response |-> [ type |-> "Array<{start: string, end: string, timeZone: string, offset: number}>",
                   description |-> "Times when all users are available with timezone and offset" ],
    headers |-> << "x-api-key", "Content-Type" >> ],
  [ name |-> "addAvailability",
    path |-> "/v1/availability/addAvailability",
    method |-> "POST",
    description |-> "Add availability for a user",
    hasParams |-> FALSE,
    params |-> <<>>,
    hasBody |-> TRUE,
    body |-> <<
      Field("userId", "string", TRUE,
            "User ID"),
      Field("start", "string", TRUE,
            "Start DateTime"),
      Field("end", "string", TRUE,
            "End DateTime"),
      Field("timezone", "string", FALSE,
            "Timezone (defaults to America/New_York)") >>,
    response |-> [ type |-> "Availability",
                   description |-> "Created availability object" ],
    headers |-> << "x-api-key", "Content-Type" >> ],
  [ name |-> "updateAvailability",
    path |-> "/v1/availability/updateAvailability",
    method |-> "PUT",
    description |-> "Update existing availability",
    hasParams |-> FALSE,
    params |-> <<>>,
    hasBody |-> TRUE,
    body |-> <<
      Field("availabilityId", "string", TRUE,
            "Availability ID"),
      Field("userId", "string", TRUE,
            "User ID"),
      Field("start", "string", FALSE,
            "New start time"),
      Field("end", "string", FALSE,
            "New end time"),
      Field("timezone", "string", FALSE,
            "New timezone") >>,
    response |-> [ type |-> "Availability",
                   description |-> "Updated availability object" ],
    headers |-> << "x-api-key", "Content-Type" >> ],
  [ name |-> "deleteAvailability",
    path |-> "/v1/availability/deleteAvailability",
    method |-> "DELETE",
    description |-> "Delete availability",
    hasParams |-> TRUE,
    params |-> <<
      Field("id", "string", TRUE,
            "Availability ID to delete"),
      Field("userId", "string", TRUE,
            "User ID") >>,
    hasBody |-> FALSE,
    body |-> <<>>,
    response |-> [ type |-> "{message: string}",
                   description |-> "Deletion confirmation message" ],
    headers |-> << "x-api-key" >> ],
  [ name |-> "getRecurringAvailability",
    path |-> "/v1/recurringAvailability/getRecurringAvailability",
    method |-> "GET",
    description |-> "Get all recurring availability for a user",
    hasParams |-> TRUE,
    params |-> <<
      Field("userId", "string", TRUE,
            "User ID") >>,
    hasBody |-> FALSE,
    body |-> <<>>,
    response |-> [ type |-> "RecurringAvailability[]",
                   description |-> "Array of recurring availability objects" ],
    headers |-> << "x-api-key" >> ],
  [ name |-> "addRecurringAvailability",
    path |-> "/v1/recurringAvailability/addRecurringAvailability",
    method |-> "POST",
    description |-> "Add recurring availability for a user",
    hasParams |-> FALSE,
    params |-> <<>>,
    hasBody |-> TRUE,
    body |-> <<
      Field("userId", "string", TRUE,
            "User ID"),
      Field("daysOfWeek", "DaysOfWeek[]", TRUE,
            "Days this occurs on"),
      Field("start", "string", TRUE,
            "Start time (ISO 8601 DateTime format - full timestamp required, time portion defines recurring pattern)"),
      Field("end", "string", TRUE,
            "End time (ISO 8601 DateTime format - full timestamp required, time portion defines recurring pattern)"),
      Field("expiration", "string", FALSE,
            "Expiration date (null = infinite)"),
      Field("timezone", "string", FALSE,
            "Timezone (defaults to America/New_York)") >>,
    response |-> [ type |-> "RecurringAvailability",
                   description |-> "Created recurring availability" ],
    headers |-> << "x-api-key", "Content-Type" >> ],
  [ name |-> "updateRecurringAvailability",
    path |-> "/v1/recurringAvailability/updateRecurringAvailability",
    method |-> "PUT",
    description |-> "Update recurring availability",
    hasParams |-> FALSE,
    params |-> <<>>,
    hasBody |-> TRUE,
    body |-> <<
      Field("id", "string", TRUE,
            "Recurring availability ID"),
      Field("userId", "string", TRUE,
            "User ID"),
      Field("daysOfWeek", "DaysOfWeek[]", FALSE,
            "New days"),
      Field("start", "string", FALSE,
            "New start time (ISO 8601 DateTime format - full timestamp required, time portion defines recurring pattern)"),
      Field("end", "string", FALSE,
            "New end time (ISO 8601 DateTime format - full timestamp required, time portion defines recurring pattern)"),
      Field("expiration", "string", FALSE,
            "New expiration"),
      Field("makeInfinite", "boolean", FALSE,
            "Set to true to remove expiration"),
      Field("timezone", "string", FALSE,
            "New timezone") >>,
    response |-> [ type |-> "RecurringAvailability",
                   description |-> "Updated recurring availability" ],
    headers |-> << "x-api-key", "Content-Type" >> ],
  [ name |-> "deleteRecurringAvailability",
    path |-> "/v1/recurringAvailability/deleteRecurringAvailability",
    method |-> "DELETE",
    description |-> "Delete recurring availability",
    hasParams |-> TRUE,
    params |-> <<
      Field("userId", "string", TRUE,
            "User ID"),
      Field("id", "string", TRUE,
            "Recurring availability ID") >>,
    hasBody |-> FALSE,
    body |-> <<>>,
    response |-> [ type |-> "{message: string}",
                   description |-> "Deletion confirmation" ],
    headers |-> << "x-api-key" >> ],
  [ name |-> "getAvailabilityException",
    path |-> "/v1/availabilityException/getAvailabilityException",
    method |-> "GET",
    description |-> "Get availability exceptions for a user",
    hasParams |-> TRUE,
    params |-> <<
      Field("userId", "string", TRUE,
            "User ID"),
      Field("start", "string", TRUE,
            "Start date (ISO 8601 format)"),
      Field("end", "string", FALSE,
            "End date (ISO 8601 format). If not provided, returns exceptions for the entire day of start") >>,
    hasBody |-> FALSE,
    body |-> <<>>,
    response |-> [ type |-> "AvailabilityException[]",
                   description |-> "Array of availability exceptions" ],
    headers |-> << "x-api-key" >> ],
  [ name |-> "addAvailabilityException",
    path |-> "/v1/availabilityException/addAvailabilityException",
    method |-> "POST",
    description |-> "Add an availability exception",
    hasParams |-> FALSE,
    params |-> <<>>,
    hasBody |-> TRUE,
    body |-> <<
      Field("userId", "string", TRUE,
            "User ID"),
      Field("start", "string", TRUE,
            "Start DateTime"),
      Field("end", "string", TRUE,
            "End DateTime"),
      Field("timezone", "string", FALSE,
            "Timezone") >>,
    response |-> [ type |-> "AvailabilityException",
                   description |-> "Created exception" ],
    headers |-> << "x-api-key", "Content-Type" >> ],
  [ name |-> "addRecurringAvailabilityException",
    path |-> "/v1/availabilityException/addRecurringAvailabilityException",
    method |-> "POST",
    description |-> "Add recurring availability exception",
    hasParams |-> FALSE,
    params |-> <<>>,
    hasBody |-> TRUE,
    body |-> <<
      Field("userId", "string", TRUE,
            "User ID"),
      Field("start", "string", TRUE,
            "Start DateTime"),
      Field("end", "string", TRUE,
            "End DateTime"),
      Field("numberOfWeeks", "number", TRUE,
            "Number of weeks to repeat"),
      Field("timezone", "string", FALSE,
            "Timezone (defaults to America/New_York)") >>,
    response |-> [ type |-> "{count: number}",
                   description |-> "Number of exceptions created" ],
    headers |-> << "x-api-key", "Content-Type" >> ],
  [ name |-> "updateAvailabilityException",
    path |-> "/v1/availabilityException/updateAvailabilityException",
    method |-> "PUT",
    description |-> "Update availability exception",
    hasParams |-> FALSE,
    params |-> <<>>,
    hasBody |-> TRUE,
    body |-> <<
      Field("availabilityExceptionId", "string", TRUE,
            "Exception ID"),
      Field("userId", "string", TRUE,
            "User ID"),
      Field("start", "string", FALSE,
            "New start"),
      Field("end", "string", FALSE,
            "New end"),
      Field("timezone", "string", FALSE,
            "New timezone") >>,
    response |-> [ type |-> "AvailabilityException",
                   description |-> "Updated exception" ],
    headers |-> << "x-api-key", "Content-Type" >> ],
  [ name |-> "deleteAvailabilityException",
    path |-> "/v1/availabilityException/deleteAvailabilityException",
    method |-> "DELETE",
    description |-> "Delete availability exception",
    hasParams |-> TRUE,
    params |-> <<
      Field("id", "string", TRUE,
            "Exception ID"),
      Field("userId", "string", TRUE,
            "User ID") >>,
    hasBody |-> FALSE,
    body |-> <<>>,
    response |-> [ type |-> "{message: string}",
                   description |-> "Deletion confirmation" ],
    headers |-> << "x-api-key" >> ],
  [ name |-> "getBooking",
    path |-> "/v1/booking/getBooking",
    method |-> "GET",
    description |-> "Get all bookings for a specific user within a date range",
    hasParams |-> TRUE,
    params |-> <<
      Field("userId", "string", TRUE,
            "User ID"),
      Field("start", "string", TRUE,
            "Start date"),
      Field("end", "string", FALSE,
            "End date (optional)") >>,
    hasBody |-> FALSE,
    body |-> <<>>,
    response |-> [ type |-> "Booking[]",
                   description |-> "Array of booking objects" ],
    headers |-> << "x-api-key" >> ],
  [ name |-> "getBookingsByIds",
    path |-> "/v1/booking/getBookingsByIds",
    method |-> "POST",
    description |-> "Get multiple bookings by IDs",
    hasParams |-> FALSE,
    params |-> <<>>,
    hasBody |-> TRUE,
    body |-> <<
      Field("bookingIds", "string[]", TRUE,
            "Array of booking IDs") >>,
    response |-> [ type |-> "Array<{id: string, start: string, end: string, timeZone: string}>",
                   description |-> "Array of booking objects with basic fields" ],
    headers |-> << "x-api-key", "Content-Type" >> ],
  [ name |-> "addBooking",
    path |-> "/v1/booking/addBooking",
    method |-> "POST",
    description |-> "Create a new booking",
    hasParams |-> FALSE,
    params |-> <<>>,
    hasBody |-> TRUE,
    body |-> <<
      Field("users", "string[]", TRUE,
            "User IDs for booking"),
      Field("start", "string", TRUE,
            "Start DateTime"),
      Field("end", "string", TRUE,
            "End DateTime"),
      Field("allowDoubleBooking", "boolean", FALSE,
            "Allow double booking (defaults to false)"),
      Field("timezone", "string", FALSE,
            "Timezone") >>,
    response |-> [ type |-> "Booking",
                   description |-> "Created booking" ],
    headers |-> << "x-api-key", "Content-Type" >> ],
  [ name |-> "updateBooking",
    path |-> "/v1/booking/updateBooking",
    method |-> "PUT",
    description |-> "Update a booking",
    hasParams |-> FALSE,
    params |-> <<>>,
    hasBody |-> TRUE,
    body |-> <<
      Field("bookingId", "string", TRUE,
            "Booking ID"),
      Field("users", "string[]", FALSE,
            "New user IDs"),
      Field("start", "string", FALSE,
            "New start"),
      Field("end", "string", FALSE,
            "New end"),
      Field("timezone", "string", FALSE,
            "New timezone") >>,
    response |-> [ type |-> "Booking",
                   description |-> "Updated booking" ],
    headers |-> << "x-api-key", "Content-Type" >> ],
  [ name |-> "deleteBooking",
    path |-> "/v1/booking/deleteBooking",
    method |-> "DELETE",
    description |-> "Delete a booking",
    hasParams |-> TRUE,
    params |-> <<
      Field("id", "string", TRUE,
            "Booking ID") >>,
    hasBody |-> FALSE,
    body |-> <<>>,
    response |-> [ type |-> "{message: string}",
                   description |-> "Deletion confirmation" ],
    headers |-> << "x-api-key" >> ],
  [ name |-> "getAccount",
    path |-> "/v1/account/getAccount",
    method |-> "GET",
    description |-> "Get account information",
    hasParams |-> FALSE,
    params |-> <<>>,
    hasBody |-> FALSE,
    body |-> <<>>,
    response |-> [ type |-> "Account",
                   description |-> "Account object" ],
    headers |-> << "x-api-key" >> ],
  [ name |-> "updateAccount",
    path |-> "/v1/account/updateAccount",
    method |-> "PUT",
    description |-> "Update account information",
    hasParams |-> FALSE,
    params |-> <<>>,
    hasBody |-> TRUE,
    body |-> <<
      Field("name", "string", FALSE,
            "New account name") >>,
    response |-> [ type |-> "Account",
                   description |-> "Updated account" ],
    headers |-> << "x-api-key", "Content-Type" >> ]
  >>

---------------------------------------------------------------------------
(* The type projector *)

knownTypes ==
  << "User", "Availability", "RecurringAvailability", "AvailabilityException",
     "Booking", "Account" >>

\* isKnownType with the last name of the list left out
isKnownTypeShort(type) == \E i \in 1..(Len(knownTypes) - 1) : knownTypes[i] = type

isKnownType(type) == \E i \in 1..Len(knownTypes) : knownTypes[i] = type

mapResponseType(type, useTypes) ==
  IF ~useTypes THEN type
  ELSE IF Includes(type, "[]") THEN
    LET baseType == ReplaceFirst(type, "[]", "")
    IN  IF isKnownType(baseType) THEN "Types." \o baseType \o "[]"
        ELSE baseType \o "[]"
  ELSE IF StartsWith(type, "Array<") THEN
    LET innerType == SliceFrom(type, 6, 1)
    IN  IF isKnownType(innerType) THEN "Types." \o innerType \o "[]"
        ELSE type
  ELSE IF isKnownType(type) THEN "Types." \o type
  ELSE IF StartsWith(type, "{") /\ EndsWith(type, "}") THEN type
  ELSE type

generateParamType(param) ==
  LET tsType == IF param.type = "number" THEN "number"
                ELSE IF param.type = "boolean" THEN "boolean" ELSE "string"
  IN  IF param.required THEN tsType ELSE tsType \o " | undefined"

\* generateBodyType without the days-of-week case
generateBodyTypeGenericArray(field) ==
  IF Includes(field.type, "[]") THEN
    LET mappedType == ReplaceFirst(field.type, "[]", "") \o "[]"
    IN  IF field.required THEN mappedType ELSE mappedType \o " | undefined"
  ELSE
    LET tsType == IF field.type = "number" THEN "number"
                  ELSE IF field.type = "boolean" THEN "boolean" ELSE "string"
    IN  IF field.required THEN tsType ELSE tsType \o " | undefined"

generateBodyType(field) ==
  IF Includes(field.type, "[]") THEN
    LET baseType == ReplaceFirst(field.type, "[]", "")
        mappedType == IF field.type = "DaysOfWeek[]" THEN "Types.DaysOfWeek[]"
                      ELSE baseType \o "[]"
    IN  IF field.required THEN mappedType ELSE mappedType \o " | undefined"
  ELSE
    LET tsType == IF field.type = "number" THEN "number"
                  ELSE IF field.type = "boolean" THEN "boolean" ELSE "string"
    IN  IF field.required THEN tsType ELSE tsType \o " | undefined"

---------------------------------------------------------------------------
(* The method renderer *)

\* the GET branch with the endpoint expression of the DELETE branch
GetMethodTextAlwaysQuery(name, endpoint, returnType) ==
  LET paramLine(p) == "    " \o p.key \o "?: " \o generateParamType(p) \o ";"
      paramTypes ==
        Join([ i \in 1..Len(endpoint.params) |-> paramLine(endpoint.params[i]) ], "\n")
  IN  "\n"
  \o "  async "
  \o name
  \o "(params: {\n"
  \o paramTypes
  \o "\n"
  \o "  } = {}): Promise<"
  \o returnType
  \o "> {\n"
  \o "    const query = new URLSearchParams();\n"
  \o "    Object.entries(params).forEach(([key, value]) => {\n"
  \o "      if (value !== undefined) {\n"
  \o "        query.append(key, String(value));\n"
  \o "      }\n"
  \o "    });\n"
  \o "    return this.request<"
  \o returnType
  \o ">('"
  \o endpoint.path
  \o "?' + query.toString(), {\n"
  \o "      method: 'GET'\n"
  \o "    });\n"
  \o "  }"

\* the GET branch of generateMethod
GetMethodText(name, endpoint, returnType) ==
  LET paramLine(p) == "    " \o p.key \o "?: " \o generateParamType(p) \o ";"
      paramTypes ==
        Join([ i \in 1..Len(endpoint.params) |-> paramLine(endpoint.params[i]) ], "\n")
  IN  "\n"
  \o "  async "
  \o name
  \o "(params: {\n"
  \o paramTypes
  \o "\n"
  \o "  } = {}): Promise<"
  \o returnType
  \o "> {\n"
  \o "    const query = new URLSearchParams();\n"
  \o "    Object.entries(params).forEach(([key, value]) => {\n"
  \o "      if (value !== undefined) {\n"
  \o "        query.append(key, String(value));\n"
  \o "      }\n"
  \o "    });\n"
  \o "    const queryString = query.toString();\n"
  \o "    return this.request<"
  \o returnType
  \o ">('"
  \o endpoint.path
  \o "' + (queryString ? '?' + queryString : ''), {\n"
  \o "      method: 'GET'\n"
  \o "    });\n"
  \o "  }"

\* the DELETE branch writing every entry into the query, undefined or not
DeleteMethodTextUntested(name, endpoint, returnType) ==
  LET paramLine(p) == "    " \o p.key \o ": " \o generateParamType(p) \o ";"
      paramTypes ==
        Join([ i \in 1..Len(endpoint.params) |-> paramLine(endpoint.params[i]) ], "\n")
  IN  "\n"
  \o "  async "
  \o name
  \o "(params: {\n"
  \o paramTypes
  \o "\n"
  \o "  }): Promise<"
  \o returnType
  \o "> {\n"
  \o "    const query = new URLSearchParams();\n"
  \o "    Object.entries(params).forEach(([key, value]) => {\n"
  \o "      query.append(key, String(value));\n"
  \o "    });\n"
  \o "    return this.request<"
  \o returnType
  \o ">('"
  \o endpoint.path
  \o "?' + query.toString(), {\n"
  \o "      method: 'DELETE'\n"
  \o "    });\n"
  \o "  }"

\* the DELETE branch of generateMethod
DeleteMethodText(name, endpoint, returnType) ==
  LET paramLine(p) == "    " \o p.key \o ": " \o generateParamType(p) \o ";"
      paramTypes ==
        Join([ i \in 1..Len(endpoint.params) |-> paramLine(endpoint.params[i]) ], "\n")
  IN  "\n"
  \o "  async "
  \o name
  \o "(params: {\n"
  \o paramTypes
  \o "\n"
  \o "  }): Promise<"
  \o returnType
  \o "> {\n"
  \o "    const query = new URLSearchParams();\n"
  \o "    Object.entries(params).forEach(([key, value]) => {\n"
  \o "      if (value !== undefined) {\n"
  \o "        query.append(key, String(value));\n"
  \o "      }\n"
  \o "    });\n"
  \o "    return this.request<"
  \o returnType
  \o ">('"
  \o endpoint.path
  \o "?' + query.toString(), {\n"
  \o "      method: 'DELETE'\n"
  \o "    });\n"
  \o "  }"

\* the POST/PUT branch of generateMethod
BodyMethodText(name, endpoint, returnType) ==
  LET bodyLine(f) == "    " \o f.key \o (IF f.required THEN "" ELSE "?") \o ": "
                     \o generateBodyType(f) \o ";"
      bodyTypes ==
        Join([ i \in 1..Len(endpoint.body) |-> bodyLine(endpoint.body[i]) ], "\n")
  IN  "\n"
  \o "  async "
  \o name
  \o "(data: {\n"
  \o bodyTypes
  \o "\n"
  \o "  }): Promise<"
  \o returnType
  \o "> {\n"
  \o "    return this.request<"
  \o returnType
  \o ">('"
  \o endpoint.path
  \o "', {\n"
  \o "      method: '"
  \o endpoint.method
  \o "',\n"
  \o "      body: JSON.stringify(data)\n"
  \o "    });\n"
  \o "  }"

\* the last return of generateMethod with its request call left untyped
PlainMethodTextUntyped(name, endpoint, returnType) ==
  "\n"
  \o "  async "
  \o name
  \o "(): Promise<"
  \o returnType
  \o "> {\n"
  \o "    return this.request<any>('"
  \o endpoint.path
  \o "', {\n"
  \o "      method: '"
  \o endpoint.method
  \o "'\n"
  \o "    });\n"
  \o "  }"

\* the last return of generateMethod
PlainMethodText(name, endpoint, returnType) ==
  "\n"
  \o "  async "
  \o name
  \o "(): Promise<"
  \o returnType
  \o "> {\n"
  \o "    return this.request<"
  \o returnType
  \o ">('"
  \o endpoint.path
  \o "', {\n"
  \o "      method: '"
  \o endpoint.method
  \o "'\n"
  \o "    });\n"
  \o "  }"

\* generateMethod whose methods pass headers of their own to this.request
generateMethodOwnHeaders(name, endpoint) ==
  LET returnType == mapResponseType(endpoint.response.type, TRUE)
      text == IF endpoint.method = "GET" /\ endpoint.hasParams
                THEN GetMethodText(name, endpoint, returnType)
              ELSE IF endpoint.method = "DELETE" /\ endpoint.hasParams
                THEN DeleteMethodText(name, endpoint, returnType)
              ELSE IF endpoint.method \in {"POST", "PUT"} /\ endpoint.hasBody
                THEN BodyMethodText(name, endpoint, returnType)
              ELSE PlainMethodText(name, endpoint, returnType)
  IN  ReplaceFirst(text, "      method: '",
                   "      headers: { 'x-api-key': 'anonymous' },\n      method: '")

\* generateMethod with the verb test of the first branch left out
generateMethodAnyVerb(name, endpoint) ==
  LET returnType == mapResponseType(endpoint.response.type, TRUE)
  IN  IF endpoint.hasParams
        THEN GetMethodText(name, endpoint, returnType)
      ELSE IF endpoint.method \in {"POST", "PUT"} /\ endpoint.hasBody
        THEN BodyMethodText(name, endpoint, returnType)
      ELSE PlainMethodText(name, endpoint, returnType)

generateMethod(name, endpoint) ==
  LET returnType == mapResponseType(endpoint.response.type, TRUE)
  IN  IF endpoint.method = "GET" /\ endpoint.hasParams
        THEN GetMethodText(name, endpoint, returnType)
      ELSE IF endpoint.method = "DELETE" /\ endpoint.hasParams
        THEN DeleteMethodText(name, endpoint, returnType)
      ELSE IF endpoint.method \in {"POST", "PUT"} /\ endpoint.hasBody
        THEN BodyMethodText(name, endpoint, returnType)
      ELSE PlainMethodText(name, endpoint, returnType)

---------------------------------------------------------------------------
(* The direct-client assembler *)

\* the class text that follows the import line in generateBaseClient
KalendisClientText ==
  "\n"
  \o "\n"
  \o "class KalendisClient {\n"
  \o "  private readonly apiKey: string;\n"
  \o "  private readonly baseUrl: string;\n"
  \o "\n"
  \o "  constructor(options: { apiKey: string }) {\n"
  \o "    if (!options.apiKey) {\n"
  \o "      throw new Error('API key is required. Pass it in the constructor: new KalendisClient({ apiKey: \"your-key\" })');\n"
  \o "    }\n"
  \o "    this.apiKey = options.apiKey;\n"
  \o "    this.baseUrl = process.env.KALENDIS_API_URL || 'https://sandbox.api.kalendis.dev';\n"
  \o "  }\n"
  \o "\n"
  \o "  private async request<T>(endpoint: string, options: RequestInit = {}): Promise<T> {\n"
  \o "    const url = ~${this.baseUrl}${endpoint}~;\n"
  \o "    \n"
  \o "    try {\n"
  \o "      const response = await fetch(url, {\n"
  \o "        ...options,\n"
  \o "        headers: {\n"
  \o "          'x-api-key': this.apiKey,\n"
  \o "          'Content-Type': 'application/json',\n"
  \o "          ...options.headers\n"
  \o "        }\n"
  \o "      });\n"
  \o "\n"
  \o "      if (!response.ok) {\n"
  \o "        let errorMessage = ~Kalendis API Error (${response.status}): ${response.statusText}~;\n"
  \o "        try {\n"
  \o "          const error = await response.json();\n"
  \o "          errorMessage = ~Kalendis API Error (${response.status}): ${error.message || error.error || response.statusText}~;\n"
  \o "        } catch {\n"
  \o "          // Use default error message if response isn't JSON\n"
  \o "        }\n"
  \o "        \n"
  \o "        if (response.status === 401) {\n"
  \o "          throw new Error('Authentication failed: Invalid or missing API key');\n"
  \o "        } else if (response.status === 403) {\n"
  \o "          throw new Error('Permission denied: Your API key does not have access to this resource');\n"
  \o "        }\n"
  \o "        \n"
  \o "        throw new Error(errorMessage);\n"
  \o "      }\n"
  \o "\n"
  \o "      return response.json();\n"
  \o "    } catch (error) {\n"
  \o "      if (error instanceof TypeError && error.message.includes('fetch')) {\n"
  \o "        throw new Error(~Cannot connect to Kalendis API at ${this.baseUrl}. Please ensure the service is running.~);\n"
  \o "      }\n"
  \o "      throw error;\n"
  \o "    }\n"
  \o "  }"

generateBaseClient(environment, typesPath) ==
  "import * as Types from '" \o typesPath \o "';" \o KalendisClientText

\* options.typesImportPath || '../types': absent and '' both give the default
TypesPathOr(typesImportPath, default) ==
  IF Truthy(typesImportPath) THEN ToStr(typesImportPath) ELSE default

\* generateBackendClient emitting the methods last entry first
generateBackendClientReversed(options, endpoints) ==
  LET typesPath == TypesPathOr(options.typesImportPath, "../types")
      baseClient == generateBaseClient(options.environment, typesPath)
      n == Len(endpoints)
      methods ==
        Join([ i \in 1..n |->
                 generateMethod(endpoints[n + 1 - i].name, endpoints[n + 1 - i]) ],
             "\n")
  IN  baseClient \o "\n" \o methods \o "\n" \o "}\n" \o "\n"
      \o "export default KalendisClient;\n"

\* generateBackendClient, with the catalog it folds over as a parameter
generateBackendClient(options, endpoints) ==
  LET typesPath == TypesPathOr(options.typesImportPath, "../types")
      baseClient == generateBaseClient(options.environment, typesPath)
      methods ==
        Join([ i \in 1..Len(endpoints) |-> generateMethod(endpoints[i].name, endpoints[i]) ],
             "\n")
  IN  baseClient
      \o "\n"
      \o methods
      \o "\n"
      \o "}\n"
      \o "\n"
      \o "export default KalendisClient;\n"

---------------------------------------------------------------------------
(* The generator functions, called on inputs drawn from bounded sets *)

\* how many leading catalog entries are reordered in every way
PermSize == 4

Environments == {"production", "staging", "development"}

Methods == {"GET", "POST", "PUT", "DELETE"}

CatalogTypes == { ENDPOINTS[i].response.type : i \in 1..Len(ENDPOINTS) }

OtherNames ==
  { "string", "number", "boolean", "Date", "DaysOfWeek", "user", "Users",
    "UserAccount", "Types.User", "" }

TypeExprs ==
  CatalogTypes
    \cup { knownTypes[i] : i \in 1..Len(knownTypes) }
    \cup { knownTypes[i] \o "[]" : i \in 1..Len(knownTypes) }
    \cup { "Array<" \o knownTypes[i] \o ">" : i \in 1..Len(knownTypes) }
    \cup OtherNames
    \cup { n \o "[]" : n \in OtherNames }
    \cup { "Array<" \o n \o ">" : n \in OtherNames }

SampleParams ==
  { << >>,
    << Field("id", "string", TRUE, "") >>,
    << Field("limit", "number", FALSE, ""), Field("active", "boolean", TRUE, "") >> }

SampleBodies ==
  { << >>,
    << Field("name", "string", TRUE, ""),
       Field("daysOfWeek", "DaysOfWeek[]", FALSE, ""),
       Field("userIds", "string[]", TRUE, ""),
       Field("count", "number", FALSE, "") >>,
    << Field("matrix", "number[][]", FALSE, ""),
       Field("when", "Date", TRUE, ""),
       Field("flag", "boolean", FALSE, "") >> }

\* every combination of verb, params and body that EndpointDefinition admits
SampleEndpoints ==
  { e \in [ name : {"op"}, path : {"/v1/op"}, method : Methods,
            description : {""},
            hasParams : BOOLEAN, params : SampleParams,
            hasBody : BOOLEAN, body : SampleBodies,
            response : { [ type |-> "User", description |-> "" ],
                         [ type |-> "{message: string}", description |-> "" ] },
            headers : { << "x-api-key" >> } ] :
      /\ ~e.hasParams => e.params = << >>
      /\ ~e.hasBody => e.body = << >> }

AllEndpoints == { ENDPOINTS[i] : i \in 1..Len(ENDPOINTS) } \cup SampleEndpoints

Orders(n) ==
  { f \in [1..n -> 1..n] : \A i, j \in 1..n : f[i] = f[j] => i = j }

\* the shipped catalog with a body added to its first GET entry that has params
CatalogsWithMixedEntry ==
  LET i == CHOOSE k \in 1..Len(ENDPOINTS) :
             /\ ENDPOINTS[k].method = "GET" /\ ENDPOINTS[k].hasParams
             /\ \A j \in 1..(k - 1) : ~(ENDPOINTS[j].method = "GET" /\ ENDPOINTS[j].hasParams)
  IN  { [ ENDPOINTS EXCEPT ![i].hasBody = TRUE,
                           ![i].body = << Field("note", "string", FALSE, "") >> ] }

\* the shipped catalog, and its first PermSize entries in every order
Catalogs ==
  {ENDPOINTS} \cup { [ i \in 1..PermSize |-> ENDPOINTS[f[i]] ] : f \in Orders(PermSize) }

ClientOptions ==
  [ environment : Environments, typesImportPath : {Undefined, Str("./kalendis-types")} ]

GenInit == call = [ fn |-> "none" ]

MapResponseTypeCall ==
  /\ call.fn = "none"
  /\ \E type \in TypeExprs, useTypes \in BOOLEAN :
       call' = [ fn |-> "mapResponseType", type |-> type, useTypes |-> useTypes,
                 result |-> mapResponseType(type, useTypes) ]
  /\ UNCHANGED << serverVars, clientVars, fileVars >>

GenerateMethodCall ==
  /\ call.fn = "none"
  /\ \E endpoint \in AllEndpoints :
       call' = [ fn |-> "generateMethod", name |-> endpoint.name, endpoint |-> endpoint,
                 result |-> generateMethod(endpoint.name, endpoint) ]
  /\ UNCHANGED << serverVars, clientVars, fileVars >>

GenerateBackendClientCall ==
  /\ call.fn = "none"
  /\ \E options \in ClientOptions, endpoints \in Catalogs :
       call' = [ fn |-> "generateBackendClient", options |-> options,
                 endpoints |-> endpoints,
                 result |-> generateBackendClient(options, endpoints) ]
  /\ UNCHANGED << serverVars, clientVars, fileVars >>

\* the caller takes the result; the generator keeps nothing
GenReturn ==
  /\ call.fn # "none"
  /\ call' = [ fn |-> "none" ]
  /\ UNCHANGED << serverVars, clientVars, fileVars >>

---------------------------------------------------------------------------
(* The proxy client and the route generators: fixed texts *)

\* generateFrontendClient: the text after the types path of the import line
FrontendClientText ==
  "';\n"
  \o "import { convertToLocalTime } from '@kalendis/utils';\n"
  \o "\n"
  \o "export const api = {\n"
  \o "  getUsers: async (): Promise<Types.User[]> => {\n"
  \o "    const response = await fetch('/api/users');\n"
  \o "    if (!response.ok) throw new Error('Failed to fetch users');\n"
  \o "    return response.json();\n"
  \o "  },\n"
  \o "\n"
  \o "  createUser: async (data: { id: string; name: string; email?: string; timezone?: string }): Promise<Types.User> => {\n"
  \o "    const response = await fetch('/api/users', {\n"
  \o "      method: 'POST',\n"
  \o "      headers: { 'Content-Type': 'application/json' },\n"
  \o "      body: JSON.stringify(data)\n"
  \o "    });\n"
  \o "    if (!response.ok) throw new Error('Failed to create user');\n"
  \o "    return response.json();\n"
  \o "  },\n"
  \o "\n"
  \o "  updateUser: async (data: { id: string; name?: string; timezone?: string }): Promise<Types.User> => {\n"
  \o "    const response = await fetch(~/api/users/${data.id}~, {\n"
  \o "      method: 'PUT',\n"
  \o "      headers: { 'Content-Type': 'application/json' },\n"
  \o "      body: JSON.stringify(data)\n"
  \o "    });\n"
  \o "    if (!response.ok) throw new Error('Failed to update user');\n"
  \o "    return response.json();\n"
  \o "  },\n"
  \o "\n"
  \o "  deleteUser: async (id: string): Promise<Types.User> => {\n"
  \o "    const response = await fetch(~/api/users/${id}~, {\n"
  \o "      method: 'DELETE'\n"
  \o "    });\n"
  \o "    if (!response.ok) throw new Error('Failed to delete user');\n"
  \o "    return response.json();\n"
  \o "  },\n"
  \o "\n"
  \o "  getAvailability: async (params?: { userId?: string; start?: string; end?: string }): Promise<Types.Availability[]> => {\n"
  \o "    const query = new URLSearchParams(params as any).toString();\n"
  \o "    const response = await fetch('/api/availability' + (query ? '?' + query : ''));\n"
  \o "    if (!response.ok) throw new Error('Failed to fetch availability');\n"
  \o "    const data = await response.json();\n"
  \o "    return convertToLocalTime(data);\n"
  \o "  },\n"
  \o "\n"
  \o "  getAllAvailability: async (params: { start: string; end?: string; timezone?: string }): Promise<Array<{userId: string; start: string; end: string}>> => {\n"
  \o "    const query = new URLSearchParams(params as any).toString();\n"
  \o "    const response = await fetch('/api/availability/all?' + query);\n"
  \o "    if (!response.ok) throw new Error('Failed to fetch all availability');\n"
  \o "    const data = await response.json();\n"
  \o "    return convertToLocalTime(data);\n"
  \o "  },\n"
  \o "\n"
  \o "  getMultiUserCalculatedAvailability: async (data: {\n"
  \o "    userIds: string[];\n"
  \o "    start: string;\n"
  \o "    end?: string;\n"
  \o "    timezone?: string;\n"
  \o "  }): Promise<Array<{userId: string; availability: Array<{start: string; end: string; offset: number}>}>> => {\n"
  \o "    const response = await fetch('/api/availability/calculated', {\n"
  \o "      method: 'POST',\n"
  \o "      headers: { 'Content-Type': 'application/json' },\n"
  \o "      body: JSON.stringify(data)\n"
  \o "    });\n"
  \o "    if (!response.ok) throw new Error('Failed to fetch calculated availability');\n"
  \o "    const responseData = await response.json();\n"
  \o "    return convertToLocalTime(responseData);\n"
  \o "  },\n"
  \o "\n"
  \o "  getRecurringAvailabilityByDate: async (data: {\n"
  \o "    userId: string;\n"
  \o "    start: string;\n"
  \o "    cadence: string;\n"
  \o "    frequency: number;\n"
  \o "    numberOfOccurrences: number;\n"
  \o "    timezone?: string;\n"
  \o "  }): Promise<Array<Array<{start: string; end: string; offset: number}>>> => {\n"
  \o "    const response = await fetch('/api/availability/recurring', {\n"
  \o "      method: 'POST',\n"
  \o "      headers: { 'Content-Type': 'application/json' },\n"
  \o "      body: JSON.stringify(data)\n"
  \o "    });\n"
  \o "    if (!response.ok) throw new Error('Failed to fetch recurring availability');\n"
  \o "    const responseData = await response.json();\n"
  \o "    return convertToLocalTime(responseData);\n"
  \o "  },\n"
  \o "\n"
  \o "  getMatchingAvailabilityByDate: async (data: {\n"
  \o "    userIds: string[];\n"
  \o "    start: string;\n"
  \o "    end?: string;\n"
  \o "    timezone?: string;\n"
  \o "  }): Promise<Array<{start: string; end: string}>> => {\n"
  \o "    const response = await fetch('/api/availability/matching', {\n"
  \o "      method: 'POST',\n"
  \o "      headers: { 'Content-Type': 'application/json' },\n"
  \o "      body: JSON.stringify(data)\n"
  \o "    });\n"
  \o "    if (!response.ok) throw new Error('Failed to fetch matching availability');\n"
  \o "    const responseData = await response.json();\n"
  \o "    return convertToLocalTime(responseData);\n"
  \o "  },\n"
  \o "\n"
  \o "  addAvailability: async (data: { userId: string; start: string; end: string; timezone?: string }): Promise<Types.Availability> => {\n"
  \o "    const response = await fetch('/api/availability', {\n"
  \o "      method: 'POST',\n"
  \o "      headers: { 'Content-Type': 'application/json' },\n"
  \o "      body: JSON.stringify(data)\n"
  \o "    });\n"
  \o "    if (!response.ok) throw new Error('Failed to add availability');\n"
  \o "    const responseData = await response.json();\n"
  \o "    return convertToLocalTime(responseData);\n"
  \o "  },\n"
  \o "\n"
  \o "  updateAvailability: async (data: { id: string; start?: string; end?: string; timezone?: string }): Promise<Types.Availability> => {\n"
  \o "    const response = await fetch(~/api/availability/${data.id}~, {\n"
  \o "      method: 'PUT',\n"
  \o "      headers: { 'Content-Type': 'application/json' },\n"
  \o "      body: JSON.stringify(data)\n"
  \o "    });\n"
  \o "    if (!response.ok) throw new Error('Failed to update availability');\n"
  \o "    const responseData = await response.json();\n"
  \o "    return convertToLocalTime(responseData);\n"
  \o "  },\n"
  \o "\n"
  \o "  deleteAvailability: async (id: string, userId: string): Promise<{message: string}> => {\n"
  \o "    const response = await fetch(~/api/availability/${id}?userId=${userId}~, {\n"
  \o "      method: 'DELETE'\n"
  \o "    });\n"
  \o "    if (!response.ok) throw new Error('Failed to delete availability');\n"
  \o "    return response.json();\n"
  \o "  },\n"
  \o "\n"
  \o "  getRecurringAvailability: async (userId: string): Promise<Types.RecurringAvailability[]> => {\n"
  \o "    const response = await fetch(~/api/recurring-availability?userId=${userId}~);\n"
  \o "    if (!response.ok) throw new Error('Failed to fetch recurring availability');\n"
  \o "    const responseData = await response.json();\n"
  \o "    return convertToLocalTime(responseData);\n"
  \o "  },\n"
  \o "\n"
  \o "  addRecurringAvailability: async (data: {\n"
  \o "    userId: string;\n"
  \o "    daysOfWeek: Types.DaysOfWeek[];\n"
  \o "    start: string;\n"
  \o "    end: string;\n"
  \o "    expiration?: string;\n"
  \o "    timezone?: string;\n"
  \o "  }): Promise<Types.RecurringAvailability> => {\n"
  \o "    const response = await fetch('/api/recurring-availability', {\n"
  \o "      method: 'POST',\n"
  \o "      headers: { 'Content-Type': 'application/json' },\n"
  \o "      body: JSON.stringify(data)\n"
  \o "    });\n"
  \o "    if (!response.ok) throw new Error('Failed to add recurring availability');\n"
  \o "    const responseData = await response.json();\n"
  \o "    return convertToLocalTime(responseData);\n"
  \o "  },\n"
  \o "\n"
  \o "  updateRecurringAvailability: async (data: {\n"
  \o "    id: string;\n"
  \o "    userId: string;\n"
  \o "    daysOfWeek?: Types.DaysOfWeek[];\n"
  \o "    start?: string;\n"
  \o "    end?: string;\n"
  \o "    expiration?: string;\n"
  \o "    makeInfinite?: boolean;\n"
  \o "    timezone?: string;\n"
  \o "  }): Promise<Types.RecurringAvailability> => {\n"
  \o "    const response = await fetch(~/api/recurring-availability/${data.id}~, {\n"
  \o "      method: 'PUT',\n"
  \o "      headers: { 'Content-Type': 'application/json' },\n"
  \o "      body: JSON.stringify(data)\n"
  \o "    });\n"
  \o "    if (!response.ok) throw new Error('Failed to update recurring availability');\n"
  \o "    const responseData = await response.json();\n"
  \o "    return convertToLocalTime(responseData);\n"
  \o "  },\n"
  \o "\n"
  \o "  deleteRecurringAvailability: async (id: string, userId: string): Promise<{message: string}> => {\n"
  \o "    const response = await fetch(~/api/recurring-availability/${id}?userId=${userId}~, {\n"
  \o "      method: 'DELETE'\n"
  \o "    });\n"
  \o "    if (!response.ok) throw new Error('Failed to delete recurring availability');\n"
  \o "    return response.json();\n"
  \o "  },\n"
  \o "\n"
  \o "  getAvailabilityException: async (userId: string): Promise<Types.AvailabilityException[]> => {\n"
  \o "    const response = await fetch(~/api/availability-exceptions?userId=${userId}~);\n"
  \o "    if (!response.ok) throw new Error('Failed to fetch availability exceptions');\n"
  \o "    const responseData = await response.json();\n"
  \o "    return convertToLocalTime(responseData);\n"
  \o "  },\n"
  \o "\n"
  \o "  addAvailabilityException: async (data: {\n"
  \o "    userId: string;\n"
  \o "    start: string;\n"
  \o "    end: string;\n"
  \o "    timezone?: string;\n"
  \o "  }): Promise<Types.AvailabilityException> => {\n"
  \o "    const response = await fetch('/api/availability-exceptions', {\n"
  \o "      method: 'POST',\n"
  \o "      headers: { 'Content-Type': 'application/json' },\n"
  \o "      body: JSON.stringify(data)\n"
  \o "    });\n"
  \o "    if (!response.ok) throw new Error('Failed to add availability exception');\n"
  \o "    const responseData = await response.json();\n"
  \o "    return convertToLocalTime(responseData);\n"
  \o "  },\n"
  \o "\n"
  \o "  addRecurringAvailabilityException: async (data: {\n"
  \o "    userId: string;\n"
  \o "    daysOfWeek: Types.DaysOfWeek[];\n"
  \o "    start: string;\n"
  \o "    end: string;\n"
  \o "    expiration?: string;\n"
  \o "    timezone?: string;\n"
  \o "  }): Promise<Types.AvailabilityException[]> => {\n"
  \o "    const response = await fetch('/api/availability-exceptions/recurring', {\n"
  \o "      method: 'POST',\n"
  \o "      headers: { 'Content-Type': 'application/json' },\n"
  \o "      body: JSON.stringify(data)\n"
  \o "    });\n"
  \o "    if (!response.ok) throw new Error('Failed to add recurring availability exception');\n"
  \o "    const responseData = await response.json();\n"
  \o "    return convertToLocalTime(responseData);\n"
  \o "  },\n"
  \o "\n"
  \o "  updateAvailabilityException: async (data: {\n"
  \o "    id: string;\n"
  \o "    start?: string;\n"
  \o "    end?: string;\n"
  \o "    timezone?: string;\n"
  \o "  }): Promise<Types.AvailabilityException> => {\n"
  \o "    const response = await fetch(~/api/availability-exceptions/${data.id}~, {\n"
  \o "      method: 'PUT',\n"
  \o "      headers: { 'Content-Type': 'application/json' },\n"
  \o "      body: JSON.stringify(data)\n"
  \o "    });\n"
  \o "    if (!response.ok) throw new Error('Failed to update availability exception');\n"
  \o "    const responseData = await response.json();\n"
  \o "    return convertToLocalTime(responseData);\n"
  \o "  },\n"
  \o "\n"
  \o "  deleteAvailabilityException: async (id: string, userId: string): Promise<{message: string}> => {\n"
  \o "    const response = await fetch(~/api/availability-exceptions/${id}?userId=${userId}~, {\n"
  \o "      method: 'DELETE'\n"
  \o "    });\n"
  \o "    if (!response.ok) throw new Error('Failed to delete availability exception');\n"
  \o "    return response.json();\n"
  \o "  },\n"
  \o "\n"
  \o "  getBookings: async (params: { userId: string; start: string; end?: string }): Promise<Types.Booking[]> => {\n"
  \o "    const query = new URLSearchParams(params as any).toString();\n"
  \o "    const response = await fetch('/api/bookings?' + query);\n"
  \o "    if (!response.ok) throw new Error('Failed to fetch bookings');\n"
  \o "    const responseData = await response.json();\n"
  \o "    return convertToLocalTime(responseData);\n"
  \o "  },\n"
  \o "\n"
  \o "  getBookingsByIds: async (bookingIds: string[]): Promise<Types.Booking[]> => {\n"
  \o "    const response = await fetch('/api/bookings/bulk', {\n"
  \o "      method: 'POST',\n"
  \o "      headers: { 'Content-Type': 'application/json' },\n"
  \o "      body: JSON.stringify({ bookingIds })\n"
  \o "    });\n"
  \o "    if (!response.ok) throw new Error('Failed to fetch bookings');\n"
  \o "    const responseData = await response.json();\n"
  \o "    return convertToLocalTime(responseData);\n"
  \o "  },\n"
  \o "\n"
  \o "  createBooking: async (data: { userIds: string[]; start: string; end: string; timezone?: string }): Promise<Types.Booking> => {\n"
  \o "    const response = await fetch('/api/bookings', {\n"
  \o "      method: 'POST',\n"
  \o "      headers: { 'Content-Type': 'application/json' },\n"
  \o "      body: JSON.stringify(data)\n"
  \o "    });\n"
  \o "    if (!response.ok) throw new Error('Failed to create booking');\n"
  \o "    const responseData = await response.json();\n"
  \o "    return convertToLocalTime(responseData);\n"
  \o "  },\n"
  \o "\n"
  \o "  updateBooking: async (data: { id: string; userIds?: string[]; start?: string; end?: string; timezone?: string }): Promise<Types.Booking> => {\n"
  \o "    const response = await fetch(~/api/bookings/${data.id}~, {\n"
  \o "      method: 'PUT',\n"
  \o "      headers: { 'Content-Type': 'application/json' },\n"
  \o "      body: JSON.stringify(data)\n"
  \o "    });\n"
  \o "    if (!response.ok) throw new Error('Failed to update booking');\n"
  \o "    const responseData = await response.json();\n"
  \o "    return convertToLocalTime(responseData);\n"
  \o "  },\n"
  \o "\n"
  \o "  deleteBooking: async (id: string): Promise<{message: string}> => {\n"
  \o "    const response = await fetch(~/api/bookings/${id}~, {\n"
  \o "      method: 'DELETE'\n"
  \o "    });\n"
  \o "    if (!response.ok) throw new Error('Failed to delete booking');\n"
  \o "    return response.json();\n"
  \o "  },\n"
  \o "\n"
  \o "  getAccount: async (): Promise<Types.Account> => {\n"
  \o "    const response = await fetch('/api/account');\n"
  \o "    if (!response.ok) throw new Error('Failed to fetch account');\n"
  \o "    return response.json();\n"
  \o "  },\n"
  \o "\n"
  \o "  updateAccount: async (data: { name?: string; active?: boolean }): Promise<Types.Account> => {\n"
  \o "    const response = await fetch('/api/account', {\n"
  \o "      method: 'PUT',\n"
  \o "      headers: { 'Content-Type': 'application/json' },\n"
  \o "      body: JSON.stringify(data)\n"
  \o "    });\n"
  \o "    if (!response.ok) throw new Error('Failed to update account');\n"
  \o "    return response.json();\n"
  \o "  }\n"
  \o "};\n"
  \o "\n"
  \o "export default api;\n"

\* generateNextjsRoutes: files['app/api/users/route.ts']
NextjsUsersRoute ==
  "import { NextRequest, NextResponse } from 'next/server';\n"
  \o "import KalendisClient from '@/lib/kalendisClient';\n"
  \o "\n"
  \o "const kalendisClient = new KalendisClient({ \n"
  \o "  apiKey: process.env.KALENDIS_API_KEY! \n"
  \o "});\n"
  \o "\n"
  \o "export async function GET() {\n"
  \o "  try {\n"
  \o "    const users = await kalendisClient.getUsersByAccountId();\n"
  \o "    return NextResponse.json(users);\n"
  \o "  } catch (error: any) {\n"
  \o "    return NextResponse.json({ error: error.message }, { status: 500 });\n"
  \o "  }\n"
  \o "}\n"
  \o "\n"
  \o "export async function POST(request: NextRequest) {\n"
  \o "  try {\n"
  \o "    const body = await request.json();\n"
  \o "    const user = await kalendisClient.addUser(body);\n"
  \o "    return NextResponse.json(user, { status: 201 });\n"
  \o "  } catch (error: any) {\n"
  \o "    return NextResponse.json({ error: error.message }, { status: 500 });\n"
  \o "  }\n"
  \o "}\n"
  \o "\n"
  \o "export async function PUT(request: NextRequest) {\n"
  \o "  try {\n"
  \o "    const body = await request.json();\n"
  \o "    const user = await kalendisClient.updateUser(body);\n"
  \o "    return NextResponse.json(user);\n"
  \o "  } catch (error: any) {\n"
  \o "    return NextResponse.json({ error: error.message }, { status: 500 });\n"
  \o "  }\n"
  \o "}\n"
  \o "\n"
  \o "export async function DELETE(request: NextRequest) {\n"
  \o "  try {\n"
  \o "    const { searchParams } = new URL(request.url);\n"
  \o "    const id = searchParams.get('id');\n"
  \o "    if (!id) throw new Error('User ID required');\n"
  \o "    const result = await kalendisClient.deleteUser({ id });\n"
  \o "    return NextResponse.json(result);\n"
  \o "  } catch (error: any) {\n"
  \o "    return NextResponse.json({ error: error.message }, { status: 500 });\n"
  \o "  }\n"
  \o "}"

\* generateNextjsRoutes: files['app/api/bookings/route.ts']
NextjsBookingsRoute ==
  "import { NextRequest, NextResponse } from 'next/server';\n"
  \o "import KalendisClient from '@/lib/kalendisClient';\n"
  \o "\n"
  \o "const kalendisClient = new KalendisClient({ \n"
  \o "  apiKey: process.env.KALENDIS_API_KEY! \n"
  \o "});\n"
  \o "\n"
  \o "export async function GET(request: NextRequest) {\n"
  \o "  try {\n"
  \o "    const { searchParams } = new URL(request.url);\n"
  \o "    const userId = searchParams.get('userId');\n"
  \o "    const start = searchParams.get('start');\n"
  \o "    const end = searchParams.get('end') || undefined;\n"
  \o "    \n"
  \o "    if (!userId || !start) {\n"
  \o "      return NextResponse.json({ error: 'userId and start are required' }, { status: 400 });\n"
  \o "    }\n"
  \o "    \n"
  \o "    const bookings = await kalendisClient.getBooking({ userId, start, end });\n"
  \o "    return NextResponse.json(bookings);\n"
  \o "  } catch (error: any) {\n"
  \o "    return NextResponse.json({ error: error.message }, { status: 500 });\n"
  \o "  }\n"
  \o "}\n"
  \o "\n"
  \o "export async function POST(request: NextRequest) {\n"
  \o "  try {\n"
  \o "    const body = await request.json();\n"
  \o "    \n"
  \o "    // Check if bulk fetch\n"
  \o "    if (body.bookingIds) {\n"
  \o "      const bookings = await kalendisClient.getBookingsByIds(body);\n"
  \o "      return NextResponse.json(bookings);\n"
  \o "    }\n"
  \o "    \n"
  \o "    // Otherwise create new booking\n"
  \o "    const booking = await kalendisClient.addBooking(body);\n"
  \o "    return NextResponse.json(booking, { status: 201 });\n"
  \o "  } catch (error: any) {\n"
  \o "    return NextResponse.json({ error: error.message }, { status: 500 });\n"
  \o "  }\n"
  \o "}\n"
  \o "\n"
  \o "export async function PUT(request: NextRequest) {\n"
  \o "  try {\n"
  \o "    const body = await request.json();\n"
  \o "    const booking = await kalendisClient.updateBooking(body);\n"
  \o "    return NextResponse.json(booking);\n"
  \o "  } catch (error: any) {\n"
  \o "    return NextResponse.json({ error: error.message }, { status: 500 });\n"
  \o "  }\n"
  \o "}\n"
  \o "\n"
  \o "export async function DELETE(request: NextRequest) {\n"
  \o "  try {\n"
  \o "    const { searchParams } = new URL(request.url);\n"
  \o "    const id = searchParams.get('id');\n"
  \o "    if (!id) throw new Error('Booking ID required');\n"
  \o "    const result = await kalendisClient.deleteBooking({ id });\n"
  \o "    return NextResponse.json(result);\n"
  \o "  } catch (error: any) {\n"
  \o "    return NextResponse.json({ error: error.message }, { status: 500 });\n"
  \o "  }\n"
  \o "}"

\* generateNextjsRoutes: files['app/api/availability/route.ts']
NextjsAvailabilityRoute ==
  "import { NextRequest, NextResponse } from 'next/server';\n"
  \o "import KalendisClient from '@/lib/kalendisClient';\n"
  \o "\n"
  \o "const kalendisClient = new KalendisClient({ \n"
  \o "  apiKey: process.env.KALENDIS_API_KEY! \n"
  \o "});\n"
  \o "\n"
  \o "export async function GET(request: NextRequest) {\n"
  \o "  try {\n"
  \o "    const { searchParams } = new URL(request.url);\n"
  \o "    const params = Object.fromEntries(searchParams.entries());\n"
  \o "    \n"
  \o "    // Check which endpoint to call\n"
  \o "    if (request.url.includes('/all')) {\n"
  \o "      const availability = await kalendisClient.getAllAvailability(params as any);\n"
  \o "      return NextResponse.json(availability);\n"
  \o "    } else if (request.url.includes('/recurring-availability')) {\n"
  \o "      const availability = await kalendisClient.getRecurringAvailability(params as any);\n"
  \o "      return NextResponse.json(availability);\n"
  \o "    } else if (request.url.includes('/exceptions')) {\n"
  \o "      const exceptions = await kalendisClient.getAvailabilityException(params as any);\n"
  \o "      return NextResponse.json(exceptions);\n"
  \o "    } else {\n"
  \o "      const availability = await kalendisClient.getAvailability(params);\n"
  \o "      return NextResponse.json(availability);\n"
  \o "    }\n"
  \o "  } catch (error: any) {\n"
  \o "    return NextResponse.json({ error: error.message }, { status: 500 });\n"
  \o "  }\n"
  \o "}\n"
  \o "\n"
  \o "export async function POST(request: NextRequest) {\n"
  \o "  try {\n"
  \o "    const body = await request.json();\n"
  \o "    \n"
  \o "    // Route to correct endpoint based on URL\n"
  \o "    if (request.url.includes('/calculated')) {\n"
  \o "      const result = await kalendisClient.getMultiUserCalculatedAvailability(body);\n"
  \o "      return NextResponse.json(result);\n"
  \o "    } else if (request.url.includes('/recurring-by-date')) {\n"
  \o "      const result = await kalendisClient.getRecurringAvailabilityByDate(body);\n"
  \o "      return NextResponse.json(result);\n"
  \o "    } else if (request.url.includes('/matching')) {\n"
  \o "      const result = await kalendisClient.getMatchingAvailabilityByDate(body);\n"
  \o "      return NextResponse.json(result);\n"
  \o "    } else if (request.url.includes('/recurring-availability')) {\n"
  \o "      const result = await kalendisClient.addRecurringAvailability(body);\n"
  \o "      return NextResponse.json(result, { status: 201 });\n"
  \o "    } else if (request.url.includes('/exceptions/recurring')) {\n"
  \o "      const result = await kalendisClient.addRecurringAvailabilityException(body);\n"
  \o "      return NextResponse.json(result, { status: 201 });\n"
  \o "    } else if (request.url.includes('/exceptions')) {\n"
  \o "      const result = await kalendisClient.addAvailabilityException(body);\n"
  \o "      return NextResponse.json(result, { status: 201 });\n"
  \o "    } else {\n"
  \o "      const availability = await kalendisClient.addAvailability(body);\n"
  \o "      return NextResponse.json(availability, { status: 201 });\n"
  \o "    }\n"
  \o "  } catch (error: any) {\n"
  \o "    return NextResponse.json({ error: error.message }, { status: 500 });\n"
  \o "  }\n"
  \o "}\n"
  \o "\n"
  \o "export async function PUT(request: NextRequest) {\n"
  \o "  try {\n"
  \o "    const body = await request.json();\n"
  \o "    \n"
  \o "    if (request.url.includes('/recurring-availability')) {\n"
  \o "      const result = await kalendisClient.updateRecurringAvailability(body);\n"
  \o "      return NextResponse.json(result);\n"
  \o "    } else if (request.url.includes('/exceptions')) {\n"
  \o "      const result = await kalendisClient.updateAvailabilityException(body);\n"
  \o "      return NextResponse.json(result);\n"
  \o "    } else {\n"
  \o "      const availability = await kalendisClient.updateAvailability(body);\n"
  \o "      return NextResponse.json(availability);\n"
  \o "    }\n"
  \o "  } catch (error: any) {\n"
  \o "    return NextResponse.json({ error: error.message }, { status: 500 });\n"
  \o "  }\n"
  \o "}\n"
  \o "\n"
  \o "export async function DELETE(request: NextRequest) {\n"
  \o "  try {\n"
  \o "    const { searchParams } = new URL(request.url);\n"
  \o "    const id = searchParams.get('id');\n"
  \o "    if (!id) throw new Error('ID required');\n"
  \o "    \n"
  \o "    if (request.url.includes('/recurring-availability')) {\n"
  \o "      const userId = searchParams.get('userId');\n"
  \o "      if (!userId) throw new Error('User ID required');\n"
  \o "      const result = await kalendisClient.deleteRecurringAvailability({ id, userId });\n"
  \o "      return NextResponse.json(result);\n"
  \o "    } else if (request.url.includes('/exceptions')) {\n"
  \o "      const userId = searchParams.get('userId');\n"
  \o "      if (!userId) throw new Error('User ID required');\n"
  \o "      const result = await kalendisClient.deleteAvailabilityException({ id, userId });\n"
  \o "      return NextResponse.json(result);\n"
  \o "    } else {\n"
  \o "      const userId = searchParams.get('userId');\n"
  \o "      if (!userId) throw new Error('User ID required');\n"
  \o "      const result = await kalendisClient.deleteAvailability({ id, userId });\n"
  \o "      return NextResponse.json(result);\n"
  \o "    }\n"
  \o "  } catch (error: any) {\n"
  \o "    return NextResponse.json({ error: error.message }, { status: 500 });\n"
  \o "  }\n"
  \o "}"

\* generateNextjsRoutes: files['app/api/account/route.ts']
NextjsAccountRoute ==
  "import { NextRequest, NextResponse } from 'next/server';\n"
  \o "import KalendisClient from '@/lib/kalendisClient';\n"
  \o "\n"
  \o "const kalendisClient = new KalendisClient({ \n"
  \o "  apiKey: process.env.KALENDIS_API_KEY! \n"
  \o "});\n"
  \o "\n"
  \o "export async function GET() {\n"
  \o "  try {\n"
  \o "    const account = await kalendisClient.getAccount();\n"
  \o "    return NextResponse.json(account);\n"
  \o "  } catch (error: any) {\n"
  \o "    return NextResponse.json({ error: error.message }, { status: 500 });\n"
  \o "  }\n"
  \o "}\n"
  \o "\n"
  \o "export async function PUT(request: NextRequest) {\n"
  \o "  try {\n"
  \o "    const body = await request.json();\n"
  \o "    const account = await kalendisClient.updateAccount(body);\n"
  \o "    return NextResponse.json(account);\n"
  \o "  } catch (error: any) {\n"
  \o "    return NextResponse.json({ error: error.message }, { status: 500 });\n"
  \o "  }\n"
  \o "}"

\* generateExpressRoutes
ExpressRoutesText ==
  "import { Request, Response, Router } from 'express';\n"
  \o "import KalendisClient from './kalendisClient';\n"
  \o "\n"
  \o "const router = Router();\n"
  \o "\n"
  \o "const kalendisClient = new KalendisClient({ \n"
  \o "  apiKey: process.env.KALENDIS_API_KEY!\n"
  \o "});\n"
  \o "\n"
  \o "const handleError = (error: any, res: Response) => {\n"
  \o "  res.status(500).json({ error: error.message });\n"
  \o "};\n"
  \o "\n"
  \o "router.get('/api/users', async (req, res) => {\n"
  \o "  try {\n"
  \o "    const users = await kalendisClient.getUsersByAccountId();\n"
  \o "    res.json(users);\n"
  \o "  } catch (error: any) {\n"
  \o "    handleError(error, res);\n"
  \o "  }\n"
  \o "});\n"
  \o "\n"
  \o "router.post('/api/users', async (req, res) => {\n"
  \o "  try {\n"
  \o "    const user = await kalendisClient.addUser(req.body);\n"
  \o "    res.status(201).json(user);\n"
  \o "  } catch (error: any) {\n"
  \o "    handleError(error, res);\n"
  \o "  }\n"
  \o "});\n"
  \o "\n"
  \o "router.put('/api/users/:id', async (req, res) => {\n"
  \o "  try {\n"
  \o "    const { id } = req.params as { id: string };\n"
  \o "    const user = await kalendisClient.updateUser({ id, ...req.body });\n"
  \o "    res.json(user);\n"
  \o "  } catch (error: any) {\n"
  \o "    handleError(error, res);\n"
  \o "  }\n"
  \o "});\n"
  \o "\n"
  \o "router.delete('/api/users/:id', async (req, res) => {\n"
  \o "  try {\n"
  \o "    const { id } = req.params as { id: string };\n"
  \o "    const result = await kalendisClient.deleteUser({ id });\n"
  \o "    res.json(result);\n"
  \o "  } catch (error: any) {\n"
  \o "    handleError(error, res);\n"
  \o "  }\n"
  \o "});\n"
  \o "\n"
  \o "router.get('/api/availability', async (req, res) => {\n"
  \o "  try {\n"
  \o "    const availability = await kalendisClient.getAvailability(req.query as any);\n"
  \o "    res.json(availability);\n"
  \o "  } catch (error: any) {\n"
  \o "    handleError(error, res);\n"
  \o "  }\n"
  \o "});\n"
  \o "\n"
  \o "router.get('/api/availability/all', async (req, res) => {\n"
  \o "  try {\n"
  \o "    const availability = await kalendisClient.getAllAvailability(req.query as any);\n"
  \o "    res.json(availability);\n"
  \o "  } catch (error: any) {\n"
  \o "    handleError(error, res);\n"
  \o "  }\n"
  \o "});\n"
  \o "\n"
  \o "router.post('/api/availability/calculated', async (req, res) => {\n"
  \o "  try {\n"
  \o "    const result = await kalendisClient.getMultiUserCalculatedAvailability(req.body);\n"
  \o "    res.json(result);\n"
  \o "  } catch (error: any) {\n"
  \o "    handleError(error, res);\n"
  \o "  }\n"
  \o "});\n"
  \o "\n"
  \o "router.post('/api/availability/recurring', async (req, res) => {\n"
  \o "  try {\n"
  \o "    const result = await kalendisClient.getRecurringAvailabilityByDate(req.body);\n"
  \o "    res.json(result);\n"
  \o "  } catch (error: any) {\n"
  \o "    handleError(error, res);\n"
  \o "  }\n"
  \o "});\n"
  \o "\n"
  \o "router.post('/api/availability/matching', async (req, res) => {\n"
  \o "  try {\n"
  \o "    const result = await kalendisClient.getMatchingAvailabilityByDate(req.body);\n"
  \o "    res.json(result);\n"
  \o "  } catch (error: any) {\n"
  \o "    handleError(error, res);\n"
  \o "  }\n"
  \o "});\n"
  \o "\n"
  \o "router.post('/api/availability', async (req, res) => {\n"
  \o "  try {\n"
  \o "    const availability = await kalendisClient.addAvailability(req.body);\n"
  \o "    res.status(201).json(availability);\n"
  \o "  } catch (error: any) {\n"
  \o "    handleError(error, res);\n"
  \o "  }\n"
  \o "});\n"
  \o "\n"
  \o "router.put('/api/availability/:id', async (req, res) => {\n"
  \o "  try {\n"
  \o "    const { id } = req.params as { id: string };\n"
  \o "    const availability = await kalendisClient.updateAvailability({ id, ...req.body });\n"
  \o "    res.json(availability);\n"
  \o "  } catch (error: any) {\n"
  \o "    handleError(error, res);\n"
  \o "  }\n"
  \o "});\n"
  \o "\n"
  \o "router.delete('/api/availability/:id', async (req, res) => {\n"
  \o "  try {\n"
  \o "    const { id } = req.params as { id: string };\n"
  \o "    const { userId } = req.query as { userId: string };\n"
  \o "    const result = await kalendisClient.deleteAvailability({ id, userId });\n"
  \o "    res.json(result);\n"
  \o "  } catch (error: any) {\n"
  \o "    handleError(error, res);\n"
  \o "  }\n"
  \o "});\n"
  \o "\n"
  \o "router.get('/api/recurring-availability', async (req, res) => {\n"
  \o "  try {\n"
  \o "    const availability = await kalendisClient.getRecurringAvailability(req.query as any);\n"
  \o "    res.json(availability);\n"
  \o "  } catch (error: any) {\n"
  \o "    handleError(error, res);\n"
  \o "  }\n"
  \o "});\n"
  \o "\n"
  \o "router.post('/api/recurring-availability', async (req, res) => {\n"
  \o "  try {\n"
  \o "    const result = await kalendisClient.addRecurringAvailability(req.body);\n"
  \o "    res.status(201).json(result);\n"
  \o "  } catch (error: any) {\n"
  \o "    handleError(error, res);\n"
  \o "  }\n"
  \o "});\n"
  \o "\n"
  \o "router.put('/api/recurring-availability/:id', async (req, res) => {\n"
  \o "  try {\n"
  \o "    const { id } = req.params as { id: string };\n"
  \o "    const result = await kalendisClient.updateRecurringAvailability({ id, ...req.body });\n"
  \o "    res.json(result);\n"
  \o "  } catch (error: any) {\n"
  \o "    handleError(error, res);\n"
  \o "  }\n"
  \o "});\n"
  \o "\n"
  \o "router.delete('/api/recurring-availability/:id', async (req, res) => {\n"
  \o "  try {\n"
  \o "    const { id } = req.params as { id: string };\n"
  \o "    const { userId } = req.query as { userId: string };\n"
  \o "    const result = await kalendisClient.deleteRecurringAvailability({ id, userId });\n"
  \o "    res.json(result);\n"
  \o "  } catch (error: any) {\n"
  \o "    handleError(error, res);\n"
  \o "  }\n"
  \o "});\n"
  \o "\n"
  \o "router.get('/api/availability-exceptions', async (req, res) => {\n"
  \o "  try {\n"
  \o "    const exceptions = await kalendisClient.getAvailabilityException(req.query as any);\n"
  \o "    res.json(exceptions);\n"
  \o "  } catch (error: any) {\n"
  \o "    handleError(error, res);\n"
  \o "  }\n"
  \o "});\n"
  \o "\n"
  \o "router.post('/api/availability-exceptions', async (req, res) => {\n"
  \o "  try {\n"
  \o "    const exception = await kalendisClient.addAvailabilityException(req.body);\n"
  \o "    res.status(201).json(exception);\n"
  \o "  } catch (error: any) {\n"
  \o "    handleError(error, res);\n"
  \o "  }\n"
  \o "});\n"
  \o "\n"
  \o "router.post('/api/availability-exceptions/recurring', async (req, res) => {\n"
  \o "  try {\n"
  \o "    const exceptions = await kalendisClient.addRecurringAvailabilityException(req.body);\n"
  \o "    res.status(201).json(exceptions);\n"
  \o "  } catch (error: any) {\n"
  \o "    handleError(error, res);\n"
  \o "  }\n"
  \o "});\n"
  \o "\n"
  \o "router.put('/api/availability-exceptions/:id', async (req, res) => {\n"
  \o "  try {\n"
  \o "    const { id } = req.params as { id: string };\n"
  \o "    const exception = await kalendisClient.updateAvailabilityException({ id, ...req.body });\n"
  \o "    res.json(exception);\n"
  \o "  } catch (error: any) {\n"
  \o "    handleError(error, res);\n"
  \o "  }\n"
  \o "});\n"
  \o "\n"
  \o "router.delete('/api/availability-exceptions/:id', async (req, res) => {\n"
  \o "  try {\n"
  \o "    const { id } = req.params as { id: string };\n"
  \o "    const { userId } = req.query as { userId: string };\n"
  \o "    const result = await kalendisClient.deleteAvailabilityException({ id, userId });\n"
  \o "    res.json(result);\n"
  \o "  } catch (error: any) {\n"
  \o "    handleError(error, res);\n"
  \o "  }\n"
  \o "});\n"
  \o "\n"
  \o "router.get('/api/bookings', async (req, res) => {\n"
  \o "  try {\n"
  \o "    const bookings = await kalendisClient.getBooking(req.query as any);\n"
  \o "    res.json(bookings);\n"
  \o "  } catch (error: any) {\n"
  \o "    handleError(error, res);\n"
  \o "  }\n"
  \o "});\n"
  \o "\n"
  \o "router.post('/api/bookings/bulk', async (req, res) => {\n"
  \o "  try {\n"
  \o "    const bookings = await kalendisClient.getBookingsByIds(req.body);\n"
  \o "    res.json(bookings);\n"
  \o "  } catch (error: any) {\n"
  \o "    handleError(error, res);\n"
  \o "  }\n"
  \o "});\n"
  \o "\n"
  \o "router.post('/api/bookings', async (req, res) => {\n"
  \o "  try {\n"
  \o "    const booking = await kalendisClient.addBooking(req.body);\n"
  \o "    res.status(201).json(booking);\n"
  \o "  } catch (error: any) {\n"
  \o "    handleError(error, res);\n"
  \o "  }\n"
  \o "});\n"
  \o "\n"
  \o "router.put('/api/bookings/:id', async (req, res) => {\n"
  \o "  try {\n"
  \o "    const { id } = req.params as { id: string };\n"
  \o "    const booking = await kalendisClient.updateBooking({ id, ...req.body });\n"
  \o "    res.json(booking);\n"
  \o "  } catch (error: any) {\n"
  \o "    handleError(error, res);\n"
  \o "  }\n"
  \o "});\n"
  \o "\n"
  \o "router.delete('/api/bookings/:id', async (req, res) => {\n"
  \o "  try {\n"
  \o "    const { id } = req.params as { id: string };\n"
  \o "    const result = await kalendisClient.deleteBooking({ id });\n"
  \o "    res.json(result);\n"
  \o "  } catch (error: any) {\n"
  \o "    handleError(error, res);\n"
  \o "  }\n"
  \o "});\n"
  \o "\n"
  \o "router.get('/api/account', async (req, res) => {\n"
  \o "  try {\n"
  \o "    const account = await kalendisClient.getAccount();\n"
  \o "    res.json(account);\n"
  \o "  } catch (error: any) {\n"
  \o "    handleError(error, res);\n"
  \o "  }\n"
  \o "});\n"
  \o "\n"
  \o "router.put('/api/account', async (req, res) => {\n"
  \o "  try {\n"
  \o "    const account = await kalendisClient.updateAccount(req.body);\n"
  \o "    res.json(account);\n"
  \o "  } catch (error: any) {\n"
  \o "    handleError(error, res);\n"
  \o "  }\n"
  \o "});\n"
  \o "\n"
  \o "export default router;\n"

\* generateFastifyRoutes
FastifyRoutesText ==
  "import { FastifyInstance, FastifyReply, FastifyRequest } from 'fastify';\n"
  \o "import KalendisClient from './kalendisClient';\n"
  \o "\n"
  \o "const kalendisClient = new KalendisClient({ \n"
  \o "  apiKey: process.env.KALENDIS_API_KEY! \n"
  \o "});\n"
  \o "\n"
  \o "export default async function routes(fastify: FastifyInstance) {\n"
  \o "  fastify.get('/api/users', async (request, reply) => {\n"
  \o "    const users = await kalendisClient.getUsersByAccountId();\n"
  \o "    return users;\n"
  \o "  });\n"
  \o "\n"
  \o "  fastify.post('/api/users', async (request, reply) => {\n"
  \o "    const user = await kalendisClient.addUser(request.body as any);\n"
  \o "    reply.code(201).send(user);\n"
  \o "  });\n"
  \o "\n"
  \o "  fastify.put('/api/users/:id', async (request, reply) => {\n"
  \o "    const { id } = request.params as { id: string };\n"
  \o "    const user = await kalendisClient.updateUser({ id, ...request.body as any });\n"
  \o "    return user;\n"
  \o "  });\n"
  \o "\n"
  \o "  fastify.delete('/api/users/:id', async (request, reply) => {\n"
  \o "    const { id } = request.params as { id: string };\n"
  \o "    const result = await kalendisClient.deleteUser({ id });\n"
  \o "    return result;\n"
  \o "  });\n"
  \o "\n"
  \o "  fastify.get('/api/availability', async (request, reply) => {\n"
  \o "    const availability = await kalendisClient.getAvailability(request.query as any);\n"
  \o "    return availability;\n"
  \o "  });\n"
  \o "\n"
  \o "  fastify.get('/api/availability/all', async (request, reply) => {\n"
  \o "    const availability = await kalendisClient.getAllAvailability(request.query as any);\n"
  \o "    return availability;\n"
  \o "  });\n"
  \o "\n"
  \o "  fastify.post('/api/availability/calculated', async (request, reply) => {\n"
  \o "    const result = await kalendisClient.getMultiUserCalculatedAvailability(request.body as any);\n"
  \o "    return result;\n"
  \o "  });\n"
  \o "\n"
  \o "  fastify.post('/api/availability/recurring', async (request, reply) => {\n"
  \o "    const result = await kalendisClient.getRecurringAvailabilityByDate(request.body as any);\n"
  \o "    return result;\n"
  \o "  });\n"
  \o "\n"
  \o "  fastify.post('/api/availability/matching', async (request, reply) => {\n"
  \o "    const result = await kalendisClient.getMatchingAvailabilityByDate(request.body as any);\n"
  \o "    return result;\n"
  \o "  });\n"
  \o "\n"
  \o "  fastify.post('/api/availability', async (request, reply) => {\n"
  \o "    const availability = await kalendisClient.addAvailability(request.body as any);\n"
  \o "    reply.code(201).send(availability);\n"
  \o "  });\n"
  \o "\n"
  \o "  fastify.put('/api/availability/:id', async (request, reply) => {\n"
  \o "    const { id } = request.params as { id: string };\n"
  \o "    const availability = await kalendisClient.updateAvailability({ id, ...request.body as any });\n"
  \o "    return availability;\n"
  \o "  });\n"
  \o "\n"
  \o "  fastify.delete('/api/availability/:id', async (request, reply) => {\n"
  \o "    const { id } = request.params as { id: string };\n"
  \o "    const { userId } = request.query as { userId: string };\n"
  \o "    const result = await kalendisClient.deleteAvailability({ id, userId });\n"
  \o "    return result;\n"
  \o "  });\n"
  \o "\n"
  \o "  fastify.get('/api/recurring-availability', async (request, reply) => {\n"
  \o "    const availability = await kalendisClient.getRecurringAvailability(request.query as any);\n"
  \o "    return availability;\n"
  \o "  });\n"
  \o "\n"
  \o "  fastify.post('/api/recurring-availability', async (request, reply) => {\n"
  \o "    const result = await kalendisClient.addRecurringAvailability(request.body as any);\n"
  \o "    reply.code(201).send(result);\n"
  \o "  });\n"
  \o "\n"
  \o "  fastify.put('/api/recurring-availability/:id', async (request, reply) => {\n"
  \o "    const { id } = request.params as { id: string };\n"
  \o "    const result = await kalendisClient.updateRecurringAvailability({ id, ...request.body as any });\n"
  \o "    return result;\n"
  \o "  });\n"
  \o "\n"
  \o "  fastify.delete('/api/recurring-availability/:id', async (request, reply) => {\n"
  \o "    const { id } = request.params as { id: string };\n"
  \o "    const { userId } = request.query as { userId: string };\n"
  \o "    const result = await kalendisClient.deleteRecurringAvailability({ id, userId });\n"
  \o "    return result;\n"
  \o "  });\n"
  \o "\n"
  \o "  fastify.get('/api/availability-exceptions', async (request, reply) => {\n"
  \o "    const exceptions = await kalendisClient.getAvailabilityException(request.query as any);\n"
  \o "    return exceptions;\n"
  \o "  });\n"
  \o "\n"
  \o "  fastify.post('/api/availability-exceptions', async (request, reply) => {\n"
  \o "    const exception = await kalendisClient.addAvailabilityException(request.body as any);\n"
  \o "    reply.code(201).send(exception);\n"
  \o "  });\n"
  \o "\n"
  \o "  fastify.post('/api/availability-exceptions/recurring', async (request, reply) => {\n"
  \o "    const exceptions = await kalendisClient.addRecurringAvailabilityException(request.body as any);\n"
  \o "    reply.code(201).send(exceptions);\n"
  \o "  });\n"
  \o "\n"
  \o "  fastify.put('/api/availability-exceptions/:id', async (request, reply) => {\n"
  \o "    const { id } = request.params as { id: string };\n"
  \o "    const exception = await kalendisClient.updateAvailabilityException({ id, ...request.body as any });\n"
  \o "    return exception;\n"
  \o "  });\n"
  \o "\n"
  \o "  fastify.delete('/api/availability-exceptions/:id', async (request, reply) => {\n"
  \o "    const { id } = request.params as { id: string };\n"
  \o "    const { userId } = request.query as { userId: string };\n"
  \o "    const result = await kalendisClient.deleteAvailabilityException({ id, userId });\n"
  \o "    return result;\n"
  \o "  });\n"
  \o "\n"
  \o "  fastify.get('/api/bookings', async (request, reply) => {\n"
  \o "    const bookings = await kalendisClient.getBooking(request.query as any);\n"
  \o "    return bookings;\n"
  \o "  });\n"
  \o "\n"
  \o "  fastify.post('/api/bookings/bulk', async (request, reply) => {\n"
  \o "    const bookings = await kalendisClient.getBookingsByIds(request.body as any);\n"
  \o "    return bookings;\n"
  \o "  });\n"
  \o "\n"
  \o "  fastify.post('/api/bookings', async (request, reply) => {\n"
  \o "    const booking = await kalendisClient.addBooking(request.body as any);\n"
  \o "    reply.code(201).send(booking);\n"
  \o "  });\n"
  \o "\n"
  \o "  fastify.put('/api/bookings/:id', async (request, reply) => {\n"
  \o "    const { id } = request.params as { id: string };\n"
  \o "    const booking = await kalendisClient.updateBooking({ id, ...request.body as any });\n"
  \o "    return booking;\n"
  \o "  });\n"
  \o "\n"
  \o "  fastify.delete('/api/bookings/:id', async (request, reply) => {\n"
  \o "    const { id } = request.params as { id: string };\n"
  \o "    const result = await kalendisClient.deleteBooking({ id });\n"
  \o "    return result;\n"
  \o "  });\n"
  \o "\n"
  \o "  fastify.get('/api/account', async (request, reply) => {\n"
  \o "    const account = await kalendisClient.getAccount();\n"
  \o "    return account;\n"
  \o "  });\n"
  \o "\n"
  \o "  fastify.put('/api/account', async (request, reply) => {\n"
  \o "    const account = await kalendisClient.updateAccount(request.body as any);\n"
  \o "    return account;\n"
  \o "  });\n"
  \o "}\n"

\* generateNestJSModule: files['kalendis.controller.ts'] up to the types path
NestjsControllerHead ==
  "import { \n"
  \o "  Controller, \n"
  \o "  Get, \n"
  \o "  Post, \n"
  \o "  Put, \n"
  \o "  Delete, \n"
  \o "  Param, \n"
  \o "  Query, \n"
  \o "  Body, \n"
  \o "  HttpCode, \n"
  \o "  HttpStatus \n"
  \o "} from '@nestjs/common';\n"
  \o "import { KalendisService } from './kalendis.service';\n"
  \o "import * as Types from '"

\* generateNestJSModule: files['kalendis.controller.ts'] after the types path
NestjsControllerTail ==
  "';\n"
  \o "\n"
  \o "@Controller('api')\n"
  \o "export class KalendisController {\n"
  \o "  constructor(private readonly kalendisService: KalendisService) {}\n"
  \o "\n"
  \o "  @Get('users')\n"
  \o "  async getUsers() {\n"
  \o "    return this.kalendisService.getUsersByAccountId();\n"
  \o "  }\n"
  \o "\n"
  \o "  @Post('users')\n"
  \o "  @HttpCode(HttpStatus.CREATED)\n"
  \o "  async createUser(@Body() body: { id: string; name: string; email?: string; timezone?: string }) {\n"
  \o "    return this.kalendisService.addUser(body);\n"
  \o "  }\n"
  \o "\n"
  \o "  @Put('users/:id')\n"
  \o "  async updateUser(@Param('id') id: string, @Body() body: { name?: string; timezone?: string }) {\n"
  \o "    return this.kalendisService.updateUser({ id, ...body });\n"
  \o "  }\n"
  \o "\n"
  \o "  @Delete('users/:id')\n"
  \o "  async deleteUser(@Param('id') id: string) {\n"
  \o "    return this.kalendisService.deleteUser({ id });\n"
  \o "  }\n"
  \o "\n"
  \o "  @Get('availability')\n"
  \o "  async getAvailability(@Query() query: { userId?: string; start?: string; end?: string }) {\n"
  \o "    return this.kalendisService.getAvailability(query);\n"
  \o "  }\n"
  \o "\n"
  \o "  @Get('availability/all')\n"
  \o "  async getAllAvailability(@Query() query: { start: string; end?: string; timezone?: string }) {\n"
  \o "    return this.kalendisService.getAllAvailability(query);\n"
  \o "  }\n"
  \o "\n"
  \o "  @Post('availability/calculated')\n"
  \o "  async getCalculatedAvailability(@Body() body: { userIds: string[]; start: string; end?: string; timezone?: string }) {\n"
  \o "    return this.kalendisService.getMultiUserCalculatedAvailability(body);\n"
  \o "  }\n"
  \o "\n"
  \o "  @Post('availability/recurring')\n"
  \o "  async getRecurringAvailabilityByDate(@Body() body: { userId: string; start: string; cadence: string; frequency: number; numberOfOccurrences: number; timezone?: string }) {\n"
  \o "    return this.kalendisService.getRecurringAvailabilityByDate(body);\n"
  \o "  }\n"
  \o "\n"
  \o "  @Post('availability/matching')\n"
  \o "  async getMatchingAvailability(@Body() body: { userIds: string[]; start: string; end?: string; timezone?: string }) {\n"
  \o "    return this.kalendisService.getMatchingAvailabilityByDate(body);\n"
  \o "  }\n"
  \o "\n"
  \o "  @Post('availability')\n"
  \o "  @HttpCode(HttpStatus.CREATED)\n"
  \o "  async addAvailability(@Body() body: { userId: string; start: string; end: string; timezone?: string }) {\n"
  \o "    return this.kalendisService.addAvailability(body);\n"
  \o "  }\n"
  \o "\n"
  \o "  @Put('availability/:id')\n"
  \o "  async updateAvailability(@Param('id') id: string, @Body() body: { start?: string; end?: string; timezone?: string }) {\n"
  \o "    return this.kalendisService.updateAvailability({ id, ...body });\n"
  \o "  }\n"
  \o "\n"
  \o "  @Delete('availability/:id')\n"
  \o "  async deleteAvailability(@Param('id') id: string, @Query('userId') userId: string) {\n"
  \o "    return this.kalendisService.deleteAvailability({ id, userId });\n"
  \o "  }\n"
  \o "\n"
  \o "  @Get('recurring-availability')\n"
  \o "  async getRecurringAvailability(@Query('userId') userId: string) {\n"
  \o "    return this.kalendisService.getRecurringAvailability({ userId });\n"
  \o "  }\n"
  \o "\n"
  \o "  @Post('recurring-availability')\n"
  \o "  @HttpCode(HttpStatus.CREATED)\n"
  \o "  async addRecurringAvailability(@Body() body: { userId: string; daysOfWeek: Types.DaysOfWeek[]; start: string; end: string; expiration?: string; timezone?: string }) {\n"
  \o "    return this.kalendisService.addRecurringAvailability(body);\n"
  \o "  }\n"
  \o "\n"
  \o "  @Put('recurring-availability/:id')\n"
  \o "  async updateRecurringAvailability(@Param('id') id: string, @Body() body: { userId: string; daysOfWeek?: Types.DaysOfWeek[]; start?: string; end?: string; expiration?: string; makeInfinite?: boolean; timezone?: string }) {\n"
  \o "    return this.kalendisService.updateRecurringAvailability({ id, ...body });\n"
  \o "  }\n"
  \o "\n"
  \o "  @Delete('recurring-availability/:id')\n"
  \o "  async deleteRecurringAvailability(@Param('id') id: string, @Query('userId') userId: string) {\n"
  \o "    return this.kalendisService.deleteRecurringAvailability({ id, userId });\n"
  \o "  }\n"
  \o "\n"
  \o "  @Get('availability-exceptions')\n"
  \o "  async getAvailabilityExceptions(@Query('userId') userId: string) {\n"
  \o "    return this.kalendisService.getAvailabilityException({ userId });\n"
  \o "  }\n"
  \o "\n"
  \o "  @Post('availability-exceptions')\n"
  \o "  @HttpCode(HttpStatus.CREATED)\n"
  \o "  async addAvailabilityException(@Body() body: { userId: string; start: string; end: string; timezone?: string }) {\n"
  \o "    return this.kalendisService.addAvailabilityException(body);\n"
  \o "  }\n"
  \o "\n"
  \o "  @Post('availability-exceptions/recurring')\n"
  \o "  @HttpCode(HttpStatus.CREATED)\n"
  \o "  async addRecurringAvailabilityException(@Body() body: { userId: string; daysOfWeek: Types.DaysOfWeek[]; start: string; end: string; expiration?: string; timezone?: string }) {\n"
  \o "    return this.kalendisService.addRecurringAvailabilityException(body);\n"
  \o "  }\n"
  \o "\n"
  \o "  @Put('availability-exceptions/:id')\n"
  \o "  async updateAvailabilityException(@Param('id') id: string, @Body() body: { start?: string; end?: string; timezone?: string }) {\n"
  \o "    return this.kalendisService.updateAvailabilityException({ id, ...body });\n"
  \o "  }\n"
  \o "\n"
  \o "  @Delete('availability-exceptions/:id')\n"
  \o "  async deleteAvailabilityException(@Param('id') id: string, @Query('userId') userId: string) {\n"
  \o "    return this.kalendisService.deleteAvailabilityException({ id, userId });\n"
  \o "  }\n"
  \o "\n"
  \o "  @Get('bookings')\n"
  \o "  async getBookings(@Query() query: { userId: string; start: string; end?: string }) {\n"
  \o "    return this.kalendisService.getBooking(query);\n"
  \o "  }\n"
  \o "\n"
  \o "  @Post('bookings/bulk')\n"
  \o "  async getBookingsByIds(@Body() body: { bookingIds: string[] }) {\n"
  \o "    return this.kalendisService.getBookingsByIds(body);\n"
  \o "  }\n"
  \o "\n"
  \o "  @Post('bookings')\n"
  \o "  @HttpCode(HttpStatus.CREATED)\n"
  \o "  async createBooking(@Body() body: { userIds: string[]; start: string; end: string; timezone?: string }) {\n"
  \o "    return this.kalendisService.addBooking(body);\n"
  \o "  }\n"
  \o "\n"
  \o "  @Put('bookings/:id')\n"
  \o "  async updateBooking(@Param('id') id: string, @Body() body: { userIds?: string[]; start?: string; end?: string; timezone?: string }) {\n"
  \o "    return this.kalendisService.updateBooking({ id, ...body });\n"
  \o "  }\n"
  \o "\n"
  \o "  @Delete('bookings/:id')\n"
  \o "  async deleteBooking(@Param('id') id: string) {\n"
  \o "    return this.kalendisService.deleteBooking({ id });\n"
  \o "  }\n"
  \o "\n"
  \o "  @Get('account')\n"
  \o "  async getAccount() {\n"
  \o "    return this.kalendisService.getAccount();\n"
  \o "  }\n"
  \o "\n"
  \o "  @Put('account')\n"
  \o "  async updateAccount(@Body() body: { name?: string; active?: boolean }) {\n"
  \o "    return this.kalendisService.updateAccount(body);\n"
  \o "  }\n"
  \o "}\n"

\* generateNestJSModule: files['kalendis.service.ts'] up to the types path
NestjsServiceHead ==
  "import { Injectable } from '@nestjs/common';\n"
  \o "import KalendisClient from './kalendisClient';\n"
  \o "import * as Types from '"

\* generateNestJSModule: files['kalendis.service.ts'] after the types path
NestjsServiceTail ==
  "';\n"
  \o "\n"
  \o "@Injectable()\n"
  \o "export class KalendisService {\n"
  \o "  private kalendisClient: KalendisClient;\n"
  \o "\n"
  \o "  constructor() {\n"
  \o "    this.kalendisClient = new KalendisClient({\n"
  \o "      apiKey: process.env.KALENDIS_API_KEY!\n"
  \o "    });\n"
  \o "  }\n"
  \o "\n"
  \o "  async getUsersByAccountId() {\n"
  \o "    return this.kalendisClient.getUsersByAccountId();\n"
  \o "  }\n"
  \o "\n"
  \o "  async addUser(data: { id: string; name: string; email?: string; timezone?: string }) {\n"
  \o "    return this.kalendisClient.addUser(data);\n"
  \o "  }\n"
  \o "\n"
  \o "  async updateUser(data: { id: string; name?: string; timezone?: string }) {\n"
  \o "    return this.kalendisClient.updateUser(data);\n"
  \o "  }\n"
  \o "\n"
  \o "  async deleteUser(data: { id: string }) {\n"
  \o "    return this.kalendisClient.deleteUser(data);\n"
  \o "  }\n"
  \o "\n"
  \o "  async getAvailability(params?: { userId?: string; start?: string; end?: string }) {\n"
  \o "    return this.kalendisClient.getAvailability(params);\n"
  \o "  }\n"
  \o "\n"
  \o "  async getAllAvailability(params: { start: string; end?: string; timezone?: string }) {\n"
  \o "    return this.kalendisClient.getAllAvailability(params);\n"
  \o "  }\n"
  \o "\n"
  \o "  async getMultiUserCalculatedAvailability(data: { userIds: string[]; start: string; end?: string; timezone?: string }) {\n"
  \o "    return this.kalendisClient.getMultiUserCalculatedAvailability(data);\n"
  \o "  }\n"
  \o "\n"
  \o "  async getRecurringAvailabilityByDate(data: { userId: string; start: string; cadence: string; frequency: number; numberOfOccurrences: number; timezone?: string }) {\n"
  \o "    return this.kalendisClient.getRecurringAvailabilityByDate(data);\n"
  \o "  }\n"
  \o "\n"
  \o "  async getMatchingAvailabilityByDate(data: { userIds: string[]; start: string; end?: string; timezone?: string }) {\n"
  \o "    return this.kalendisClient.getMatchingAvailabilityByDate(data);\n"
  \o "  }\n"
  \o "\n"
  \o "  async addAvailability(data: { userId: string; start: string; end: string; timezone?: string }) {\n"
  \o "    return this.kalendisClient.addAvailability(data);\n"
  \o "  }\n"
  \o "\n"
  \o "  async updateAvailability(data: { id: string; start?: string; end?: string; timezone?: string }) {\n"
  \o "    return this.kalendisClient.updateAvailability(data);\n"
  \o "  }\n"
  \o "\n"
  \o "  async deleteAvailability(data: { id: string; userId: string }) {\n"
  \o "    return this.kalendisClient.deleteAvailability(data);\n"
  \o "  }\n"
  \o "\n"
  \o "  async getRecurringAvailability(params: { userId: string }) {\n"
  \o "    return this.kalendisClient.getRecurringAvailability(params);\n"
  \o "  }\n"
  \o "\n"
  \o "  async addRecurringAvailability(data: { userId: string; daysOfWeek: Types.DaysOfWeek[]; start: string; end: string; expiration?: string; timezone?: string }) {\n"
  \o "    return this.kalendisClient.addRecurringAvailability(data);\n"
  \o "  }\n"
  \o "\n"
  \o "  async updateRecurringAvailability(data: { id: string; userId: string; daysOfWeek?: Types.DaysOfWeek[]; start?: string; end?: string; expiration?: string; makeInfinite?: boolean; timezone?: string }) {\n"
  \o "    return this.kalendisClient.updateRecurringAvailability(data);\n"
  \o "  }\n"
  \o "\n"
  \o "  async deleteRecurringAvailability(data: { id: string; userId: string }) {\n"
  \o "    return this.kalendisClient.deleteRecurringAvailability(data);\n"
  \o "  }\n"
  \o "\n"
  \o "  async getAvailabilityException(params: { userId: string }) {\n"
  \o "    return this.kalendisClient.getAvailabilityException(params);\n"
  \o "  }\n"
  \o "\n"
  \o "  async addAvailabilityException(data: { userId: string; start: string; end: string; timezone?: string }) {\n"
  \o "    return this.kalendisClient.addAvailabilityException(data);\n"
  \o "  }\n"
  \o "\n"
  \o "  async addRecurringAvailabilityException(data: { userId: string; daysOfWeek: Types.DaysOfWeek[]; start: string; end: string; expiration?: string; timezone?: string }) {\n"
  \o "    return this.kalendisClient.addRecurringAvailabilityException(data);\n"
  \o "  }\n"
  \o "\n"
  \o "  async updateAvailabilityException(data: { id: string; start?: string; end?: string; timezone?: string }) {\n"
  \o "    return this.kalendisClient.updateAvailabilityException(data);\n"
  \o "  }\n"
  \o "\n"
  \o "  async deleteAvailabilityException(data: { id: string; userId: string }) {\n"
  \o "    return this.kalendisClient.deleteAvailabilityException(data);\n"
  \o "  }\n"
  \o "\n"
  \o "  async getBooking(params: { userId: string; start: string; end?: string }) {\n"
  \o "    return this.kalendisClient.getBooking(params);\n"
  \o "  }\n"
  \o "\n"
  \o "  async getBookingsByIds(data: { bookingIds: string[] }) {\n"
  \o "    return this.kalendisClient.getBookingsByIds(data);\n"
  \o "  }\n"
  \o "\n"
  \o "  async addBooking(data: { userIds: string[]; start: string; end: string; timezone?: string }) {\n"
  \o "    return this.kalendisClient.addBooking(data);\n"
  \o "  }\n"
  \o "\n"
  \o "  async updateBooking(data: { id: string; userIds?: string[]; start?: string; end?: string; timezone?: string }) {\n"
  \o "    return this.kalendisClient.updateBooking(data);\n"
  \o "  }\n"
  \o "\n"
  \o "  async deleteBooking(data: { id: string }) {\n"
  \o "    return this.kalendisClient.deleteBooking(data);\n"
  \o "  }\n"
  \o "\n"
  \o "  async getAccount() {\n"
  \o "    return this.kalendisClient.getAccount();\n"
  \o "  }\n"
  \o "\n"
  \o "  async updateAccount(data: { name?: string; active?: boolean }) {\n"
  \o "    return this.kalendisClient.updateAccount(data);\n"
  \o "  }\n"
  \o "}\n"

\* generateNestJSModule: files['kalendis.module.ts']
NestjsModuleText ==
  "import { Module } from '@nestjs/common';\n"
  \o "import { KalendisController } from './kalendis.controller';\n"
  \o "import { KalendisService } from './kalendis.service';\n"
  \o "\n"
  \o "@Module({\n"
  \o "  controllers: [KalendisController],\n"
  \o "  providers: [KalendisService],\n"
  \o "  exports: [KalendisService],\n"
  \o "})\n"
  \o "export class KalendisModule {}\n"

generateFrontendClient(options) ==
  LET typesPath == TypesPathOr(options.typesImportPath, "../types")
  IN  "import * as Types from '" \o typesPath \o FrontendClientText

\* the files of generateNextjsRoutes in insertion order, as <<path, content>>
generateNextjsRoutes(typesPath) ==
  << << "app/api/users/route.ts", NextjsUsersRoute >>,
     << "app/api/bookings/route.ts", NextjsBookingsRoute >>,
     << "app/api/availability/route.ts", NextjsAvailabilityRoute >>,
     << "app/api/account/route.ts", NextjsAccountRoute >> >>

\* the Express router whose account update calls a method under another name
generateExpressRoutesRenamedCall ==
  ReplaceFirst(ExpressRoutesText, "await kalendisClient.updateAccount(req.body);",
               "await kalendisClient.setAccount(req.body);")

generateExpressRoutes == ExpressRoutesText

generateFastifyRoutes == FastifyRoutesText

\* generateNestJSModule without its third file
generateNestJSModuleTwoFiles(typesPath) ==
  LET path == ParamOr(typesPath, "@/types")
  IN  << << "kalendis.controller.ts", NestjsControllerHead \o path \o NestjsControllerTail >>,
         << "kalendis.service.ts", NestjsServiceHead \o path \o NestjsServiceTail >> >>

\* the files of generateNestJSModule in insertion order, as <<path, content>>
generateNestJSModule(typesPath) ==
  LET path == ParamOr(typesPath, "@/types")
  IN  << << "kalendis.controller.ts", NestjsControllerHead \o path \o NestjsControllerTail >>,
         << "kalendis.service.ts", NestjsServiceHead \o path \o NestjsServiceTail >>,
         << "kalendis.module.ts", NestjsModuleText >> >>

---------------------------------------------------------------------------
(* The tool-call handler of the server *)

\* the files of a multi-file generator combined into one text
CombineFiles(files) ==
  Join([ i \in 1..Len(files) |-> "// File: " \o files[i][1] \o "\n" \o files[i][2] ],
       "\n\n// ========================================\n\n")

\* case 'generate-backend-client'
BackendClientCase(args) ==
  LET environment == IF Truthy(args.environment) THEN args.environment
                     ELSE Str("production")
  IN  IF environment.t # "string"
         \/ environment.v \notin {"production", "staging", "development"}
      THEN Throw("Valid environment is required (production, staging, development)")
      ELSE Return(generateBackendClient(
                    [ environment |-> environment.v,
                      typesImportPath |-> args.typesImportPath ],
                    ENDPOINTS))

\* case 'generate-frontend-client'
FrontendClientCase(args) ==
  Return(generateFrontendClient([ typesImportPath |-> args.typesImportPath ]))

\* case 'generate-api-routes' without the test of the framework argument
ApiRoutesCaseUnchecked(args) ==
  IF args.framework.v = "nextjs"
    THEN Return(CombineFiles(generateNextjsRoutes(args.typesImportPath)))
  ELSE IF args.framework.v = "express" THEN Return(generateExpressRoutes)
  ELSE IF args.framework.v = "fastify" THEN Return(generateFastifyRoutes)
  ELSE IF args.framework.v = "nestjs"
    THEN Return(CombineFiles(generateNestJSModule(args.typesImportPath)))
  ELSE Throw("Unsupported framework: " \o ToStr(args.framework))

\* case 'generate-api-routes'
ApiRoutesCase(args) ==
  IF \/ ~Truthy(args.framework)
     \/ args.framework.t # "string"
     \/ args.framework.v \notin {"nextjs", "express", "fastify", "nestjs"}
  THEN Throw("Valid framework is required (nextjs, express, fastify, or nestjs)")
  ELSE IF args.framework.v = "nextjs"
    THEN Return(CombineFiles(generateNextjsRoutes(args.typesImportPath)))
  ELSE IF args.framework.v = "express" THEN Return(generateExpressRoutes)
  ELSE IF args.framework.v = "fastify" THEN Return(generateFastifyRoutes)
  ELSE IF args.framework.v = "nestjs"
    THEN Return(CombineFiles(generateNestJSModule(args.typesImportPath)))
  ELSE Throw("Unsupported framework: " \o args.framework.v)

\* one block of the list-endpoints text
EndpointBlock(endpoint) ==
  LET keys(fields) == Join([ i \in 1..Len(fields) |-> fields[i].key ], ", ")
      params == IF endpoint.hasParams
                THEN "\n    Query params: " \o keys(endpoint.params) ELSE ""
      body == IF endpoint.hasBody
              THEN "\n    Body params: " \o keys(endpoint.body) ELSE ""
      responseInfo == "\n    Response: " \o endpoint.response.type \o " - "
                      \o endpoint.response.description
  IN  endpoint.name \o ":\n  " \o endpoint.method \o " " \o endpoint.path \o "\n  "
      \o endpoint.description \o params \o body \o responseInfo

\* case 'list-endpoints' listing the catalog last entry first
ListEndpointsCaseReversed ==
  LET n == Len(ENDPOINTS)
      endpointsList ==
        Join([ i \in 1..n |-> EndpointBlock(ENDPOINTS[n + 1 - i]) ], "\n\n")
  IN  Return("Kalendis API Endpoints:\n\n" \o endpointsList)

\* case 'list-endpoints'
ListEndpointsCase ==
  LET endpointsList ==
        Join([ i \in 1..Len(ENDPOINTS) |-> EndpointBlock(ENDPOINTS[i]) ], "\n\n")
  IN  Return("Kalendis API Endpoints:\n\n" \o endpointsList)

\* the handler answering a failed call with the error and, as a second item,
\* the text generated for the default arguments
CallToolTwoItems(name, args) ==
  LET result == IF name = "generate-backend-client" THEN BackendClientCase(args)
                ELSE IF name = "generate-frontend-client" THEN FrontendClientCase(args)
                ELSE IF name = "generate-api-routes" THEN ApiRoutesCase(args)
                ELSE IF name = "list-endpoints" THEN ListEndpointsCase
                ELSE Throw("Unknown tool: " \o name)
  IN  IF result.threw
      THEN << [ type |-> "text", text |-> "Error: " \o result.value ],
              [ type |-> "text", text |-> generateFrontendClient([ typesImportPath |-> Undefined ]) ] >>
      ELSE << [ type |-> "text", text |-> result.value ] >>

\* the handler with the call number written into the text it returns
CallToolNumbered(name, args) ==
  << [ type |-> "text",
       text |-> "// call " \o ToString(Len(log)) \o "\n"
                \o generateFrontendClient([ typesImportPath |-> args.typesImportPath ]) ] >>

\* the CallToolRequestSchema handler: the content array of its result
CallTool(name, args) ==
  LET result == IF name = "generate-backend-client" THEN BackendClientCase(args)
                ELSE IF name = "generate-frontend-client" THEN FrontendClientCase(args)
                ELSE IF name = "generate-api-routes" THEN ApiRoutesCase(args)
                ELSE IF name = "list-endpoints" THEN ListEndpointsCase
                ELSE Throw("Unknown tool: " \o name)
  IN  << [ type |-> "text",
           text |-> IF result.threw THEN "Error: " \o result.value ELSE result.value ] >>

\* how many tool calls one behaviour follows
MaxCalls == 3

NoArgs == [ environment |-> Undefined, typesImportPath |-> Undefined, framework |-> Undefined ]

ToolRequests ==
  { [ name |-> "generate-backend-client", arguments |-> NoArgs ],
    [ name |-> "generate-backend-client",
      arguments |-> [ NoArgs EXCEPT !.environment = Str("staging"),
                                    !.typesImportPath = Str("./kalendis-types") ] ],
    [ name |-> "generate-backend-client",
      arguments |-> [ NoArgs EXCEPT !.environment = Str("qa") ] ],
    [ name |-> "generate-backend-client",
      arguments |-> [ NoArgs EXCEPT !.environment = Num("42") ] ],
    [ name |-> "generate-backend-client",
      arguments |-> [ NoArgs EXCEPT !.environment = Str("") ] ],
    [ name |-> "generate-frontend-client", arguments |-> NoArgs ],
    [ name |-> "generate-api-routes", arguments |-> NoArgs ],
    [ name |-> "generate-api-routes",
      arguments |-> [ NoArgs EXCEPT !.framework = Str("nextjs") ] ],
    [ name |-> "generate-api-routes",
      arguments |-> [ NoArgs EXCEPT !.framework = Str("express") ] ],
    [ name |-> "generate-api-routes",
      arguments |-> [ NoArgs EXCEPT !.framework = Str("fastify") ] ],
    [ name |-> "generate-api-routes",
      arguments |-> [ NoArgs EXCEPT !.framework = Str("nestjs"),
                                    !.typesImportPath = Str("./kalendis-types") ] ],
    [ name |-> "generate-api-routes",
      arguments |-> [ NoArgs EXCEPT !.framework = Str("graphql") ] ],
    [ name |-> "generate-api-routes",
      arguments |-> [ NoArgs EXCEPT !.framework = Num("42") ] ],
    [ name |-> "list-endpoints", arguments |-> NoArgs ],
    [ name |-> "generate-graphql-client", arguments |-> NoArgs ] }

\* one tool call, from the request to the result; the handler awaits nothing,
\* so calls do not overlap
CallToolRequest ==
  /\ Len(log) < MaxCalls
  /\ \E request \in ToolRequests :
       log' = Append(log, [ request |-> request,
                            content |-> CallTool(request.name, request.arguments) ])
  /\ UNCHANGED << genVars, clientVars, fileVars >>

---------------------------------------------------------------------------
(* The emitted KalendisClient at run time *)

\* BASE_URLS, given KALENDIS_API_URL of the generating process
BASE_URLS(KALENDIS_API_URL) ==
  [ production |-> "https://api.kalendis.dev",
    staging |-> "https://dev-303703761.us-central1.run.app",
    development |-> IF Truthy(KALENDIS_API_URL) THEN ToStr(KALENDIS_API_URL)
                    ELSE "https://sandbox.api.kalendis.dev" ]

\* the text between the first occurrence of open and the next occurrence of close
Between(text, open, close) ==
  LET from == IndexOf(text, open) + Len(open)
      rest == SubSeq(text, from, Len(text))
  IN  SubSeq(rest, 1, IndexOf(rest, close) - 1)

\* the default base URL written into the constructor of the client that
\* generateBaseClient emits for an environment
EmittedDefaultUrl(environment) ==
  Between(generateBaseClient(environment, "../types"),
          "this.baseUrl = process.env.KALENDIS_API_URL || '", "'")

\* the emitted constructor without its apiKey test
NewKalendisClientUnguarded(options, env) ==
  Return([ apiKey |-> options.apiKey,
           baseUrl |-> IF Truthy(env.KALENDIS_API_URL) THEN ToStr(env.KALENDIS_API_URL)
                       ELSE EmittedDefaultUrl(env.target) ])

\* the emitted constructor, run in a process with environment env
NewKalendisClient(options, env) ==
  IF ~Truthy(options.apiKey)
  THEN Throw([ type |-> "Error",
               message |-> "API key is required. Pass it in the constructor: new KalendisClient({ apiKey: \"your-key\" })" ])
  ELSE Return([ apiKey |-> options.apiKey,
                baseUrl |-> IF Truthy(env.KALENDIS_API_URL) THEN ToStr(env.KALENDIS_API_URL)
                            ELSE EmittedDefaultUrl(env.target) ])

\* the emitted request, up to its await of fetch: the network call it issues
\* the headers of options are spread after the two defaults and replace them
FetchCall(this, endpoint, options) ==
  LET spread(default, own) == IF own = Undefined THEN default ELSE own
  IN  [ url |-> this.baseUrl \o endpoint,
        method |-> options.method,
        headers |-> [ xApiKey |-> spread(this.apiKey, options.headers.xApiKey),
                      contentType |-> spread(Str("application/json"),
                                             options.headers.contentType) ] ]

\* Response.ok
Ok(response) == response.status \in 200..299

\* error.message || error.error || response.statusText, for the parsed body
ErrorDetail(response) ==
  IF Truthy(response.body.message) THEN ToStr(response.body.message)
  ELSE IF Truthy(response.body.error) THEN ToStr(response.body.error)
  ELSE response.statusText

\* HttpError with the status tests placed after the body's message: a body
\* that carries a message or an error decides the text
HttpErrorBodyFirst(response) ==
  IF response.body.kind = "object"
     /\ (Truthy(response.body.message) \/ Truthy(response.body.error))
    THEN [ type |-> "Error",
           message |-> "Kalendis API Error (" \o ToString(response.status) \o "): "
                       \o ErrorDetail(response) ]
  ELSE IF response.status = 401
    THEN [ type |-> "Error",
           message |-> "Authentication failed: Invalid or missing API key" ]
  ELSE IF response.status = 403
    THEN [ type |-> "Error",
           message |-> "Permission denied: Your API key does not have access to this resource" ]
  ELSE [ type |-> "Error",
         message |-> "Kalendis API Error (" \o ToString(response.status) \o "): "
                     \o response.statusText ]

\* the Error thrown in the if (!response.ok) block.  response.json() rejects
\* for a body that is no JSON or that breaks off, and reading a member of a
\* parsed null raises a TypeError: the inner catch swallows all of these and
\* the default message stands.
HttpError(response) ==
  LET errorMessage ==
        IF response.body.kind = "object"
        THEN "Kalendis API Error (" \o ToString(response.status) \o "): "
             \o ErrorDetail(response)
        ELSE "Kalendis API Error (" \o ToString(response.status) \o "): "
             \o response.statusText
  IN  IF response.status = 401
        THEN [ type |-> "Error",
               message |-> "Authentication failed: Invalid or missing API key" ]
      ELSE IF response.status = 403
        THEN [ type |-> "Error",
               message |-> "Permission denied: Your API key does not have access to this resource" ]
      ELSE [ type |-> "Error", message |-> errorMessage ]

\* response.json()
ResponseJson(response) ==
  IF response.body.kind = "text"
    THEN Throw([ type |-> "SyntaxError", message |-> "Unexpected token in JSON" ])
  ELSE IF response.body.kind = "broken"
    THEN Throw([ type |-> "TypeError", message |-> "terminated" ])
  ELSE Return(response.body)

\* the catch block of the emitted request, for an error raised in the try block
RequestOnError(this, error) ==
  IF error.type = "TypeError" /\ Includes(error.message, "fetch")
  THEN Throw([ type |-> "Error",
               message |-> "Cannot connect to Kalendis API at " \o this.baseUrl
                           \o ". Please ensure the service is running." ])
  ELSE Throw(error)

\* the emitted request after fetch has resolved.  The Error of a non-ok
\* response is thrown inside the try block and so passes the catch block;
\* return response.json() hands the promise back without awaiting it, so
\* its rejection does not.
RequestOnResponse(this, response) ==
  IF ~Ok(response) THEN RequestOnError(this, HttpError(response))
  ELSE ResponseJson(response)

\* how many network calls one behaviour follows
MaxRequests == 2

ApiKeys == { Undefined, Str(""), Str("key-1"), Str("key-2") }

OverrideUrls == { Undefined, Str("http://localhost:3000") }

\* the this.request call written in a rendered method: the string literal its
\* first argument starts with, and the method and headers members of its options
RequestCallOf(methodText) ==
  LET args == Between(methodText, "this.request<", "\n    });") \o "\n"
      literal == SubSeq(args, IndexOf(args, ", {\n") + 3, Len(args))
      has(key) == Includes(literal, "\n      " \o key \o ": ")
      member(key) == Between(literal, "\n      " \o key \o ": ", "\n")
      header(name) ==
        IF has("headers") /\ Includes(member("headers"), "'" \o name \o "': '")
        THEN Str(Between(member("headers"), "'" \o name \o "': '", "'"))
        ELSE Undefined
  IN  [ endpoint |-> Between(args, ">('", "'"),
        options |-> [ method |-> Between(member("method"), "'", "'"),
                      headers |-> [ xApiKey |-> header("x-api-key"),
                                    contentType |-> header("Content-Type") ] ] ]

\* the request calls of two emitted methods: getAccount and addUser
RequestCalls ==
  { RequestCallOf(generateMethod(ENDPOINTS[i].name, ENDPOINTS[i])) :
      i \in { k \in 1..Len(ENDPOINTS) : ENDPOINTS[k].name \in {"getAccount", "addUser"} } }

StatusTexts ==
  [ s \in {200, 204, 400, 401, 403, 404, 500} |->
      CASE s = 200 -> "OK"
        [] s = 204 -> "No Content"
        [] s = 400 -> "Bad Request"
        [] s = 401 -> "Unauthorized"
        [] s = 403 -> "Forbidden"
        [] s = 404 -> "Not Found"
        [] s = 500 -> "Internal Server Error" ]

\* a response body: text that is no JSON, a body whose transfer breaks off,
\* the JSON null, or a JSON object with or without the members message and error
Bodies ==
  { [ kind |-> "text", message |-> Undefined, error |-> Undefined ],
    [ kind |-> "broken", message |-> Undefined, error |-> Undefined ],
    [ kind |-> "null", message |-> Undefined, error |-> Undefined ] }
    \cup [ kind : {"object"},
           message : { Undefined, Str(""), Str("User not found") },
           error : { Undefined, Str("NOT_FOUND") } ]

\* HTTP/2 responses carry no reason phrase: statusText is then empty
Responses ==
  { r \in [ status : DOMAIN StatusTexts, statusText : { StatusTexts[s] : s \in DOMAIN StatusTexts } \cup {""},
            body : Bodies ] :
      r.statusText \in { StatusTexts[r.status], "" } }

\* what fetch may reject with when the network call fails: the fetch standard
\* asks for a TypeError and leaves its message to the implementation; a
\* fetch polyfill rejects with an error class of its own
TransportErrors ==
  { [ type |-> "TypeError", message |-> "fetch failed" ],
    [ type |-> "TypeError", message |-> "Failed to fetch" ],
    [ type |-> "TypeError", message |-> "Load failed" ],
    [ type |-> "TypeError", message |-> "error sending request for url" ],
    [ type |-> "FetchError", message |-> "request failed, reason: connect ECONNREFUSED" ] }

NoOutcome == [ op |-> "none" ]

ClientIdle ==
  /\ client = [ constructed |-> FALSE ]
  /\ pc = "start"
  /\ sent = << >>
  /\ outcome = NoOutcome

\* the process that runs the emitted client: the environment the client was
\* generated for, and KALENDIS_API_URL as the process finds it
ClientInit ==
  /\ clientEnv \in [ target : Environments, KALENDIS_API_URL : OverrideUrls ]
  /\ ClientIdle

\* new KalendisClient({ apiKey })
Construct ==
  /\ pc = "start"
  /\ \E apiKey \in ApiKeys :
       LET made == NewKalendisClient([ apiKey |-> apiKey ], clientEnv)
       IN  /\ outcome' = [ op |-> "constructor", apiKey |-> apiKey,
                           threw |-> made.threw,
                           value |-> made.value ]
           /\ client' = IF made.threw THEN client
                        ELSE [ constructed |-> TRUE, this |-> made.value ]
           /\ pc' = IF made.threw THEN "start" ELSE "ready"
  /\ UNCHANGED << clientEnv, sent, genVars, serverVars, fileVars >>

\* a method of the client calls this.request, which issues fetch and awaits it
Request ==
  /\ pc = "ready"
  /\ client.constructed
  /\ Len(sent) < MaxRequests
  /\ \E c \in RequestCalls :
       sent' = Append(sent, FetchCall(client.this, c.endpoint, c.options))
  /\ pc' = "fetching"
  /\ UNCHANGED << clientEnv, client, outcome, genVars, serverVars, fileVars >>

\* fetch resolves with a response of any status
FetchResolves ==
  /\ pc = "fetching"
  /\ \E response \in Responses :
       LET done == RequestOnResponse(client.this, response)
       IN  outcome' = [ op |-> "request", settled |-> "response", response |-> response,
                        threw |-> done.threw, value |-> done.value ]
  /\ pc' = "ready"
  /\ UNCHANGED << clientEnv, client, sent, genVars, serverVars, fileVars >>

\* fetch rejects: the network call failed
FetchRejects ==
  /\ pc = "fetching"
  /\ \E error \in TransportErrors :
       LET done == RequestOnError(client.this, error)
       IN  outcome' = [ op |-> "request", settled |-> "rejection", error |-> error,
                        threw |-> done.threw, value |-> done.value ]
  /\ pc' = "ready"
  /\ UNCHANGED << clientEnv, client, sent, genVars, serverVars, fileVars >>

---------------------------------------------------------------------------
(* The emitted proxy client (export const api) at run time *)

needsTimezoneConversion(methodName) ==
  \/ Includes(methodName, "Availability")
  \/ Includes(methodName, "Booking")
  \/ Includes(methodName, "availability")
  \/ Includes(methodName, "booking")

\* String.prototype.lastIndexOf(p, from), 1-based; 0 when p does not occur
RECURSIVE LastIndexOf(_, _, _)
LastIndexOf(s, p, from) ==
  IF from < 1 THEN 0
  ELSE IF SubSeq(s, from, from + Len(p) - 1) = p THEN from
  ELSE LastIndexOf(s, p, from - 1)

\* the members of the api object in an emitted proxy client: each member's
\* name, and its text from ': async (' up to the next member's
ApiFunctions(text) ==
  LET marks == Occurrences(text, ": async (")
      stop(m) == LET later == { k \in marks : k > m }
                 IN  IF later = {} THEN Len(text) + 1
                     ELSE CHOOSE e \in later : \A d \in later : e <= d
  IN  { [ name |-> SubSeq(text, LastIndexOf(text, "\n  ", m) + 3, m - 1),
          body |-> SubSeq(text, m, stop(m) - 1) ] : m \in marks }

\* the api object of the proxy client generated with the default types path
EmittedApi == ApiFunctions(generateFrontendClient([ typesImportPath |-> Undefined ]))

\* one member of the api object, run to the end once its fetch has resolved
\* with response: the statements are read from the member's text, in order
ApiFunctionRun(f, response) ==
  LET guard == IndexOf(f.body, "if (!response.ok) throw new Error('")
      converts == IndexOf(f.body, "return convertToLocalTime(")
      parsed == ResponseJson(response)
  IN  IF guard > 0 /\ ~Ok(response)
      THEN [ threw |-> TRUE, converted |-> FALSE,
             value |-> [ type |-> "Error",
                         message |-> Between(f.body, "if (!response.ok) throw new Error('", "'") ] ]
      ELSE IF parsed.threw
      THEN [ threw |-> TRUE, converted |-> FALSE, value |-> parsed.value ]
      ELSE [ threw |-> FALSE, converted |-> converts > guard, value |-> parsed.value ]

\* the responses a proxy function may get from the application's own backend
ProxyResponses == { r \in Responses : r.statusText # "" }

GenerateFrontendClientCall ==
  /\ call.fn = "none"
  /\ \E options \in [ typesImportPath : {Undefined, Str(""), Str("./kalendis-types")} ] :
       call' = [ fn |-> "generateFrontendClient", options |-> options,
                 result |-> generateFrontendClient(options) ]
  /\ UNCHANGED << serverVars, clientVars, fileVars >>

\* the application calls a member of the emitted api object
ApiFunctionCall ==
  /\ call.fn = "none"
  /\ \E f \in EmittedApi, response \in ProxyResponses :
       LET done == ApiFunctionRun(f, response)
       IN  call' = [ fn |-> "api", name |-> f.name, response |-> response,
                     threw |-> done.threw, converted |-> done.converted,
                     value |-> done.value ]
  /\ UNCHANGED << serverVars, clientVars, fileVars >>

---------------------------------------------------------------------------
(* The emitted route handlers at run time.  A handler is read from the     *)
(* generated text: the direct-client method it calls, where the argument   *)
(* of that call comes from, the tests it makes before the call, the status *)
(* it answers with, and whether it catches what the call throws.           *)

Frameworks == {"nextjs", "express", "fastify", "nestjs"}

\* the request values a handler forwards by name
ForwardedNames == {"id", "userId", "start", "end"}

\* the largest member of S below m, else 0; the smallest above m, else top
Before(S, m) ==
  LET below == { x \in S : x < m }
  IN  IF below = {} THEN 0 ELSE CHOOSE b \in below : \A c \in below : c <= b

After(S, m, top) ==
  LET above == { x \in S : x > m }
  IN  IF above = {} THEN top ELSE CHOOSE a \in above : \A c \in above : a <= c

RECURSIVE Ascending(_)
Ascending(S) ==
  IF S = {} THEN << >>
  ELSE LET m == CHOOSE a \in S : \A c \in S : a <= c
       IN  << m >> \o Ascending(S \ {m})

\* name occurs in the object literal arg as a shorthand member
Mentions(arg, name) ==
  \/ Includes(arg, "{ " \o name \o " ")
  \/ Includes(arg, "{ " \o name \o ",")
  \/ Includes(arg, ", " \o name \o " ")
  \/ Includes(arg, ", " \o name \o ",")

\* name is bound from the path of the request in the text before the call
FromPath(pre, name) ==
  \/ Includes(pre, "{ " \o name \o " } = req.params")
  \/ Includes(pre, "{ " \o name \o " } = request.params")
  \/ Includes(pre, "@Param('" \o name \o "') " \o name \o ":")

\* name is bound from the query string of the request
FromQuery(pre, name) ==
  \/ Includes(pre, "{ " \o name \o " } = req.query")
  \/ Includes(pre, "{ " \o name \o " } = request.query")
  \/ Includes(pre, "@Query('" \o name \o "') " \o name \o ":")
  \/ Includes(pre, "const " \o name \o " = searchParams.get('" \o name \o "')")

\* the whole query object is the argument
WholeQuery(pre, arg) ==
  \/ StartsWith(arg, "req.query")
  \/ StartsWith(arg, "request.query")
  \/ arg = "query" /\ Includes(pre, "@Query() query:")
  \/ StartsWith(arg, "params")
       /\ Includes(pre, "const params = Object.fromEntries(searchParams.entries());")

\* the whole body is the argument, or is spread into it
WholeBody(pre, arg) ==
  \/ Includes(arg, "req.body")
  \/ Includes(arg, "request.body")
  \/ Includes(arg, "body") /\ Includes(pre, "@Body() body:")
  \/ Includes(arg, "body") /\ Includes(pre, "const body = await request.json();")

\* the tests of the form if (!name ...) made before the call, in order:
\* the names tested, the message, and whether the statement throws an Error
\* or answers with status 400
GuardsOf(pre) ==
  LET at == Ascending(Occurrences(pre, "if (!"))
      stmt(g) == LET rest == SubSeq(pre, g, Len(pre))
                 IN  SubSeq(rest, 1, IndexOf(rest, ";"))
  IN  [ i \in 1..Len(at) |->
          LET st == stmt(at[i])
              cond == SubSeq(st, 1, IndexOf(st, ")"))
          IN  [ names |-> { n \in ForwardedNames :
                              Includes(cond, "!" \o n \o ")") \/ Includes(cond, "!" \o n \o " ") },
                message |-> Between(st, "'", "'"),
                throws |-> Includes(st, "throw new Error('"),
                status |-> IF Includes(st, "{ status: 400 }") THEN 400 ELSE 0 ] ]

\* the handlers in text: one for each call of the direct client (callMark),
\* inside the handler that begins at the nearest startMark before it
HandlersOf(framework, text, startMark, callMark) ==
  LET starts == Occurrences(text, startMark)
      calls == Occurrences(text, callMark)
  IN  { LET hs == Before(starts, m)
            he == After(starts, m, Len(text) + 1)
            pre == SubSeq(text, hs, m - 1)
            rest == SubSeq(text, m + Len(callMark), he - 1)
            post == SubSeq(text, m, After(calls, m, he) - 1)
            block == SubSeq(text, hs, he - 1)
            arg == Between(rest, "(", ")")
        IN  [ framework |-> framework,
              method |-> SubSeq(rest, 1, IndexOf(rest, "(") - 1),
              path |-> { n \in ForwardedNames : Mentions(arg, n) /\ FromPath(pre, n) },
              query |-> { n \in ForwardedNames : Mentions(arg, n) /\ FromQuery(pre, n) },
              wholeQuery |-> WholeQuery(pre, arg),
              wholeBody |-> WholeBody(pre, arg),
              guards |-> GuardsOf(pre),
              success |-> IF \/ Includes(post, "{ status: 201 }")
                             \/ Includes(post, "res.status(201)")
                             \/ Includes(post, "reply.code(201)")
                             \/ Includes(pre, "@HttpCode(HttpStatus.CREATED)")
                          THEN 201 ELSE 200,
              catches |->
                /\ Includes(block, "} catch (error: any) {")
                /\ \/ Includes(block, "return NextResponse.json({ error: error.message }, { status: 500 });")
                   \/ /\ Includes(block, "handleError(error, res);")
                      /\ Includes(text, "const handleError = (error: any, res: Response) => {\n  res.status(500).json({ error: error.message });\n};") ]
        : m \in calls }

\* the handlers of the four generated outputs
RouteHandlers ==
  LET nextjs == generateNextjsRoutes(Undefined)
      nestjs == generateNestJSModule(Undefined)
  IN  UNION { HandlersOf("nextjs", nextjs[i][2], "export async function ", "await kalendisClient.")
              : i \in 1..Len(nextjs) }
      \cup HandlersOf("express", generateExpressRoutes, "\nrouter.", "await kalendisClient.")
      \cup HandlersOf("fastify", generateFastifyRoutes, "\n  fastify.", "await kalendisClient.")
      \cup HandlersOf("nestjs", nestjs[1][2], "\n\n  @", "return this.kalendisService.")

\* the methods of the generated NestJS service: the name of each, and the
\* direct-client method it calls
NestjsServiceMethods ==
  LET text == generateNestJSModule(Undefined)[2][2]
      marks == Occurrences(text, "\n  async ")
  IN  { LET rest == SubSeq(text, m, After(marks, m, Len(text) + 1) - 1)
        IN  [ name |-> Between(rest, "\n  async ", "("),
              calls |-> Between(rest, "return this.kalendisClient.", "(") ]
        : m \in marks }

\* the direct-client methods a handler invokes: its own call, or for a
\* NestJS handler the calls of the service methods of the name it calls
ClientMethodsOf(h) ==
  IF h.framework = "nestjs"
  THEN { s.calls : s \in { x \in NestjsServiceMethods : x.name = h.method } }
  ELSE { h.method }

\* what a handler does with an error thrown inside it: answered as
\* { error: message } with status 500 where it catches, else the error
\* leaves the handler
HandlerOnError(h, error) ==
  IF h.catches
  THEN [ called |-> FALSE, answered |-> TRUE, status |-> 500,
         payload |-> [ error |-> error.message ] ]
  ELSE [ called |-> FALSE, answered |-> FALSE, status |-> 0, payload |-> error ]

\* one handler run on a request in which the names in absent are missing,
\* with the direct-client call ending as clientOutcome
HandlerRun(h, absent, clientOutcome) ==
  LET firing == { i \in 1..Len(h.guards) : h.guards[i].names \cap absent # {} }
      first == h.guards[CHOOSE i \in firing : \A j \in firing : i <= j]
  IN  IF firing # {}
      THEN IF first.throws
           THEN HandlerOnError(h, [ type |-> "Error", message |-> first.message ])
           ELSE [ called |-> FALSE, answered |-> TRUE, status |-> first.status,
                  payload |-> [ error |-> first.message ] ]
      ELSE IF clientOutcome.threw
           THEN [ HandlerOnError(h, clientOutcome.value) EXCEPT !.called = TRUE ]
           ELSE [ called |-> TRUE, answered |-> TRUE, status |-> h.success,
                  payload |-> clientOutcome.value ]

\* how the call of the direct client may end
ClientOutcomes ==
  { Return("result"),
    Throw([ type |-> "Error", message |-> "Kalendis API Error (404): User not found" ]),
    Throw([ type |-> "Error", message |-> "Authentication failed: Invalid or missing API key" ]) }

AbsentNames == { {}, {"id"}, {"userId"}, {"start"} }

\* a request reaches a generated route handler
RouteHandlerCall ==
  /\ call.fn = "none"
  /\ \E h \in RouteHandlers, absent \in AbsentNames, clientOutcome \in ClientOutcomes :
       call' = [ fn |-> "route", handler |-> h, absent |-> absent,
                 clientOutcome |-> clientOutcome,
                 result |-> HandlerRun(h, absent, clientOutcome) ]
  /\ UNCHANGED << serverVars, clientVars, fileVars >>

GenerateNestJSModuleCall ==
  /\ call.fn = "none"
  /\ \E typesPath \in {Undefined, Str("./kalendis-types")} :
       call' = [ fn |-> "generateNestJSModule", typesPath |-> typesPath,
                 result |-> generateNestJSModule(typesPath) ]
  /\ UNCHANGED << serverVars, clientVars, fileVars >>

---------------------------------------------------------------------------
(* The emitted methods of the direct client at run time *)

\* an object argument, as the sequence of its own entries in insertion order
Obj(entries) == [ t |-> "object", v |-> "", entries |-> entries ]

\* the application/x-www-form-urlencoded serializer of URLSearchParams, for
\* one character: letters, digits and *-._ stay, the space becomes +, any
\* other byte is percent-encoded
EncodeChar(c) ==
  CASE c = " " -> "+"
    [] c = "&" -> "%26"
    [] c = "=" -> "%3D"
    [] c = "+" -> "%2B"
    [] c = "@" -> "%40"
    [] c = ":" -> "%3A"
    [] c = "?" -> "%3F"
    [] OTHER -> c

RECURSIVE Encode(_)
Encode(s) ==
  IF s = "" THEN "" ELSE EncodeChar(SubSeq(s, 1, 1)) \o Encode(SubSeq(s, 2, Len(s)))

\* URLSearchParams.prototype.toString for the pairs appended
QueryToString(pairs) ==
  Join([ i \in 1..Len(pairs) |-> Encode(pairs[i].key) \o "=" \o Encode(pairs[i].value) ], "&")

\* one call of an emitted method, up to the this.request call it makes: the
\* parameter default, the forEach over Object.entries with its test, and the
\* endpoint expression are read from the method's text
EmittedMethodRun(text, arg) ==
  LET defaulted == Includes(text, "\n  } = {}): Promise<")
      params == IF arg.t = "undefined" /\ defaulted THEN Obj(<< >>) ELSE arg
      tested == Includes(text, "      if (value !== undefined) {\n        query.append(key, String(value));\n      }\n")
      kept == SelectSeq(params.entries, LAMBDA en : ~tested \/ en.value.t # "undefined")
      query == [ i \in 1..Len(kept) |-> [ key |-> kept[i].key, value |-> ToStr(kept[i].value) ] ]
      queryString == QueryToString(query)
      c == RequestCallOf(text)
      endpoint ==
        IF Includes(text, "' + (queryString ? '?' + queryString : ''), {\n")
          THEN c.endpoint \o (IF queryString # "" THEN "?" \o queryString ELSE "")
        ELSE IF Includes(text, "?' + query.toString(), {\n")
          THEN c.endpoint \o queryString
        ELSE c.endpoint
  IN  IF params.t = "undefined"
        THEN Throw([ type |-> "TypeError",
                     message |-> "Cannot convert undefined or null to object" ])
      ELSE Return([ endpoint |-> endpoint, method |-> c.options.method ])

\* the values an entry of a params object may hold
ParamValues ==
  { Undefined, Str(""), Str("u 1"), Str("a&b=c"), Num("7"),
    [ t |-> "boolean", v |-> "false" ] }

\* how many of a descriptor's params an argument may mention
MaxEntries == 2

\* the arguments a method is called with: none, or an object holding, in the
\* descriptor's order, some of its first MaxEntries params
RECURSIVE ObjectsOver(_)
ObjectsOver(keys) ==
  IF Len(keys) = 0 THEN { << >> }
  ELSE LET rest == ObjectsOver(Tail(keys))
       IN  rest \cup { << [ key |-> Head(keys), value |-> v ] >> \o r :
                         v \in ParamValues, r \in rest }

MethodArguments(endpoint) ==
  LET n == IF Len(endpoint.params) < MaxEntries THEN Len(endpoint.params) ELSE MaxEntries
  IN  { Undefined } \cup
      { Obj(es) : es \in ObjectsOver([ i \in 1..n |-> endpoint.params[i].key ]) }

\* the descriptors with params, from the catalog
ParamEndpoints ==
  { e \in AllEndpoints : e.hasParams /\ ~e.hasBody /\ e.method \in {"GET", "DELETE"}
                         /\ Len(e.params) > 0 }

\* a method generated for a descriptor with params is called
EmittedMethodCall ==
  /\ call.fn = "none"
  /\ \E endpoint \in ParamEndpoints :
       \E arg \in MethodArguments(endpoint) :
         call' = [ fn |-> "method", endpoint |-> endpoint, arg |-> arg,
                   result |-> EmittedMethodRun(generateMethod(endpoint.name, endpoint), arg) ]
  /\ UNCHANGED << serverVars, clientVars, fileVars >>

---------------------------------------------------------------------------
(* The requests of the proxy client against the generated routes *)

UpperLetters == "ABCDEFGHIJKLMNOPQRSTUVWXYZ"

LowerLetters == "abcdefghijklmnopqrstuvwxyz"

\* String.prototype.toLowerCase
RECURSIVE ToLowerCase(_)
ToLowerCase(s) ==
  IF s = "" THEN ""
  ELSE LET c == SubSeq(s, 1, 1)
           i == IndexOf(UpperLetters, c)
       IN  (IF i = 0 THEN c ELSE SubSeq(LowerLetters, i, i))
           \o ToLowerCase(SubSeq(s, 2, Len(s)))

\* String.prototype.split('/')
RECURSIVE Split(_)
Split(s) ==
  LET i == IndexOf(s, "/")
  IN  IF i = 0 THEN << s >>
      ELSE << SubSeq(s, 1, i - 1) >> \o Split(SubSeq(s, i + 1, Len(s)))

\* a template literal with every ${...} replaced by value
RECURSIVE Interpolate(_, _)
Interpolate(s, value) ==
  LET i == IndexOf(s, "${")
      rest == SubSeq(s, i, Len(s))
      j == IndexOf(rest, "}")
  IN  IF i = 0 THEN s
      ELSE SubSeq(s, 1, i - 1) \o value \o Interpolate(SubSeq(rest, j + 1, Len(rest)), value)

\* the request a member of the api object makes: the verb of its fetch
\* options (GET without options) and the path of its first argument, each
\* interpolated value being value, up to the query string
ProxyRequestOf(f, value) ==
  LET rest == SubSeq(f.body, IndexOf(f.body, "await fetch(") + Len("await fetch("), Len(f.body))
      quote == SubSeq(rest, 1, 1)
      literal == Between(rest, quote, quote)
      url == Interpolate(literal, value)
      q == IndexOf(url, "?")
      fetched == SubSeq(rest, 1, IndexOf(rest, ");"))
  IN  [ verb |-> IF Includes(fetched, "method: '") THEN Between(fetched, "method: '", "'")
                 ELSE "GET",
        path |-> IF q = 0 THEN url ELSE SubSeq(url, 1, q - 1) ]

\* the route each direct-client call of a generated output is reached by: the
\* verb and the path pattern its handler is registered with
RoutesOf(framework, text, startMark, callMark, verbMark, prefix) ==
  LET starts == Occurrences(text, startMark)
      calls == Occurrences(text, callMark)
  IN  { LET hs == Before(starts, m)
            head == SubSeq(text, hs, m - 1)
            rest == SubSeq(text, m + Len(callMark), Len(text))
        IN  [ framework |-> framework,
              verb |-> Between(head, verbMark, "("),
              route |-> prefix \o (IF Includes(SubSeq(head, 1, IndexOf(head, ")")), "('")
                                   THEN Between(head, "('", "'") ELSE ""),
              method |-> SubSeq(rest, 1, IndexOf(rest, "(") - 1) ]
        : m \in calls }

\* the routes of the four generated outputs; a Next.js route file serves the
\* path of its directory under app, with the verbs it exports
GeneratedRoutes ==
  LET nextjs == generateNextjsRoutes(Undefined)
      nestjs == generateNestJSModule(Undefined)[1][2]
      served(file) == SubSeq(file, Len("app") + 1, Len(file) - Len("/route.ts"))
  IN  UNION { RoutesOf("nextjs", nextjs[i][2], "export async function ", "await kalendisClient.",
                       "export async function ", served(nextjs[i][1]))
              : i \in 1..Len(nextjs) }
      \cup RoutesOf("express", generateExpressRoutes, "\nrouter.", "await kalendisClient.",
                    "\nrouter.", "")
      \cup RoutesOf("fastify", generateFastifyRoutes, "\n  fastify.", "await kalendisClient.",
                    "\n  fastify.", "")
      \cup RoutesOf("nestjs", nestjs, "\n\n  @", "return this.kalendisService.", "\n\n  @",
                    "/" \o Between(nestjs, "@Controller('", "'") \o "/")

\* a path pattern matches a path: segment by segment, a segment that begins
\* with a colon matching any non-empty segment
RouteMatches(route, path) ==
  LET r == Split(route)
      p == Split(path)
  IN  /\ Len(r) = Len(p)
      /\ \A i \in 1..Len(r) :
           \/ r[i] = p[i]
           \/ StartsWith(r[i], ":") /\ p[i] # ""

\* the identifier a proxy function is called with
SampleIds == {"x1", "all"}

\* a function of the proxy client sends its request to the routes generated
\* for a framework: the direct-client methods of the handlers registered for
\* its verb and path
ProxyRequestRouted ==
  /\ call.fn = "none"
  /\ \E f \in EmittedApi, framework \in Frameworks, id \in SampleIds :
       LET request == ProxyRequestOf(f, id)
           handlers == { h \in GeneratedRoutes :
                           /\ h.framework = framework
                           /\ ToLowerCase(h.verb) = ToLowerCase(request.verb)
                           /\ RouteMatches(h.route, request.path) }
       IN  call' = [ fn |-> "proxyRequest", name |-> f.name, framework |-> framework,
                     request |-> request,
                     reaches |-> UNION { ClientMethodsOf(h) : h \in handlers } ]
  /\ UNCHANGED << serverVars, clientVars, fileVars >>

---------------------------------------------------------------------------
(* The file writer: askOverwrite and writeFile                             *)
(*                                                                         *)
(* The process runs one piece of JavaScript at a time.  A writeFile call   *)
(* runs from its entry to its await, or to its end where it has none, in   *)
(* one step; it goes on after the await in a later step, once the prompt   *)
(* has been answered.                                                      *)

\* how many writeFile calls the process makes
MaxWriters == 2

\* the working directory of the process
Cwd == "/app"

\* path.resolve(filePath)
Resolve(filePath) == IF StartsWith(filePath, "/") THEN filePath ELSE Cwd \o "/" \o filePath

\* path.dirname(fullPath)
Dirname(fullPath) == SubSeq(fullPath, 1, LastIndexOf(fullPath, "/", Len(fullPath)) - 1)

\* the paths writeFile is called with, two of them naming the same file
FilePaths == {"client.ts", "/app/client.ts", "out/client.ts"}

FullPaths == { Resolve(f) : f \in FilePaths }

\* a path at which there is no file
Absent == [ exists |-> FALSE, content |-> "" ]

File(content) == [ exists |-> TRUE, content |-> content ]

NewContents == {"class KalendisClient {}", "export const api = {};"}

\* what the user may type at the prompt
Answers == {"y", "Y", "yes", "", "n", "N"}

\* askOverwrite taking every answer that begins with y for a yes
AskOverwriteResolvesPrefix(answer) == StartsWith(ToLowerCase(answer), "y")

\* askOverwrite: what its promise resolves with for an answer
AskOverwriteResolves(answer) == ToLowerCase(answer) = "y"

NoWriter ==
  [ pc |-> "idle", fullPath |-> "", content |-> "", prompted |-> FALSE,
    answer |-> "", shouldOverwrite |-> FALSE, logged |-> << >> ]

\* the lines writeFile logs where it does not write
ContentLog(content) ==
  << "\n=== File content (add to a file of your choosing) ===\n",
     content,
     "\n=== End of file content ===\n" >>

\* the end of writeFile: mkdirSync where the directory is missing, then
\* writeFileSync and the line logged (after a check mark)
WriteThrough(d, w) ==
  [ disk |-> [ files |-> [ d.files EXCEPT ![w.fullPath] = File(w.content) ],
               dirs |-> d.dirs \cup { Dirname(w.fullPath) } ],
    writer |-> [ w EXCEPT !.pc = "done", !.logged = << "Written: " \o w.fullPath >> ] ]

\* writeFile with a wait between its existence check and its write
WriteFileToAwaitDeferred(d, filePath, content) ==
  LET w == [ NoWriter EXCEPT !.fullPath = Resolve(filePath), !.content = content ]
  IN  IF d.files[w.fullPath].exists
      THEN [ disk |-> d, writer |-> [ w EXCEPT !.pc = "prompting", !.prompted = TRUE ] ]
      ELSE [ disk |-> d, writer |-> [ w EXCEPT !.pc = "answered", !.shouldOverwrite = TRUE ] ]

\* writeFile from its entry: to the await of askOverwrite where the file
\* exists, else to its end
WriteFileToAwait(d, filePath, content) ==
  LET w == [ NoWriter EXCEPT !.fullPath = Resolve(filePath), !.content = content ]
  IN  IF d.files[w.fullPath].exists
      THEN [ disk |-> d, writer |-> [ w EXCEPT !.pc = "prompting", !.prompted = TRUE ] ]
      ELSE WriteThrough(d, w)

\* writeFile after the await of askOverwrite
WriteFileAfterAwait(d, w) ==
  IF ~w.shouldOverwrite
  THEN [ disk |-> d, writer |-> [ w EXCEPT !.pc = "done", !.logged = ContentLog(w.content) ] ]
  ELSE WriteThrough(d, w)

\* the file system before any call: each file is there or not, a file's
\* directory is there with it
FilesInit ==
  /\ disk \in { d \in [ files : [ FullPaths -> { Absent, File("old") } ],
                        dirs : SUBSET { Dirname(f) : f \in FullPaths } ] :
                  /\ Cwd \in d.dirs
                  /\ \A f \in FullPaths : d.files[f].exists => Dirname(f) \in d.dirs }
  /\ writers = [ i \in 1..MaxWriters |-> NoWriter ]

\* no writeFile call is made
FilesParked ==
  /\ disk = [ files |-> [ f \in FullPaths |-> Absent ], dirs |-> { Cwd } ]
  /\ writers = [ i \in 1..MaxWriters |-> NoWriter ]

\* writeFile(filePath, content) is called
WriteFileCall(i) ==
  /\ writers[i].pc = "idle"
  /\ \E filePath \in FilePaths, content \in NewContents :
       LET to == WriteFileToAwait(disk, filePath, content)
       IN  /\ disk' = to.disk
           /\ writers' = [ writers EXCEPT ![i] = to.writer ]
  /\ UNCHANGED << genVars, serverVars, clientVars >>

\* the user answers the prompt of a call: rl.question calls back, and the
\* promise of askOverwrite resolves
PromptAnswered(i) ==
  /\ writers[i].pc = "prompting"
  /\ \E answer \in Answers :
       writers' = [ writers EXCEPT ![i].pc = "answered", ![i].answer = answer,
                                   ![i].shouldOverwrite = AskOverwriteResolves(answer) ]
  /\ UNCHANGED << disk, genVars, serverVars, clientVars >>

\* a call goes on after its await
WriteFileResumes(i) ==
  /\ writers[i].pc = "answered"
  /\ LET after == WriteFileAfterAwait(disk, writers[i])
     IN  /\ disk' = after.disk
         /\ writers' = [ writers EXCEPT ![i] = after.writer ]
  /\ UNCHANGED << genVars, serverVars, clientVars >>

---------------------------------------------------------------------------
(* The specifications: the generator functions, the server, the emitted client *)

ServerInit == log = << >>

\* the emitted client before it is used, in a production process
ClientParked ==
  /\ clientEnv = [ target |-> "production", KALENDIS_API_URL |-> Undefined ]
  /\ ClientIdle

Init == GenInit /\ ServerInit /\ ClientParked /\ FilesParked

Next ==
  \/ MapResponseTypeCall
  \/ GenerateMethodCall
  \/ GenerateBackendClientCall
  \/ GenerateFrontendClientCall
  \/ ApiFunctionCall
  \/ RouteHandlerCall
  \/ EmittedMethodCall
  \/ ProxyRequestRouted
  \/ GenerateNestJSModuleCall
  \/ GenReturn

Spec == Init /\ [][Next]_vars

NextServer == CallToolRequest

SpecServer == Init /\ [][NextServer]_vars

InitClient == GenInit /\ ServerInit /\ ClientInit /\ FilesParked

NextClient ==
  \/ Construct
  \/ Request
  \/ FetchResolves
  \/ FetchRejects

SpecClient == InitClient /\ [][NextClient]_vars

InitWriter == GenInit /\ ServerInit /\ ClientParked /\ FilesInit

NextWriter ==
  \/ \E i \in 1..MaxWriters : WriteFileCall(i)
  \/ \E i \in 1..MaxWriters : PromptAnswered(i)
  \/ \E i \in 1..MaxWriters : WriteFileResumes(i)

SpecWriter == InitWriter /\ [][NextWriter]_vars

---------------------------------------------------------------------------
(* Claims about the generator functions, checked under Spec *)

RegistryNames ==
  { "User", "Availability", "RecurringAvailability", "AvailabilityException",
    "Booking", "Account" }

\* C1: type projection of registry names.  mapResponseType(D) is "Types." + D
\* and mapResponseType(D + "[]") is "Types." + D + "[]" for each of the six
\* registry names D, and mapResponseType(X) is X for a bare name X outside
\* the registry.
C1_TypeProjection ==
  (call.fn = "mapResponseType" /\ call.useTypes) =>
    /\ \A D \in RegistryNames :
         /\ call.type = D => call.result = "Types." \o D
         /\ call.type = D \o "[]" => call.result = "Types." \o D \o "[]"
    /\ (call.type \in OtherNames /\ call.type \notin RegistryNames) =>
         call.result = call.type

\* a registry array, a registry name and a foreign name have each been projected
C1_Witness ==
  /\ call.fn = "mapResponseType"
  /\ call.useTypes
  /\ call.type = "Booking[]"
  /\ call.result = "Types.Booking[]"

IsStructLiteral(type) == StartsWith(type, "{") /\ EndsWith(type, "}")

IsForeignArrayWrapper(type) ==
  /\ StartsWith(type, "Array<")
  /\ EndsWith(type, ">")
  /\ SliceFrom(type, 6, 1) \notin RegistryNames

\* C2: verbatim pass-through.  Every response type of the shipped catalog that
\* is an inline structural literal, or an Array<...> wrapper around something
\* that is no registry name, is returned unchanged by mapResponseType, also
\* when it has "[]" inside.
C2_VerbatimPassThrough ==
  ( /\ call.fn = "mapResponseType"
    /\ call.useTypes
    /\ call.type \in CatalogTypes
    /\ IsStructLiteral(call.type) \/ IsForeignArrayWrapper(call.type) ) =>
    call.result = call.type

\* the four shapes, read back from an emitted method
ShapeOf(text, name) ==
  LET head == "\n  async " \o name
  IN  IF StartsWith(text, head \o "(params: {\n") /\ Includes(text, "\n  } = {}): Promise<")
        THEN "get-params"
      ELSE IF StartsWith(text, head \o "(params: {\n") /\ Includes(text, "\n  }): Promise<")
        THEN "delete-params"
      ELSE IF StartsWith(text, head \o "(data: {\n") /\ Includes(text, "\n  }): Promise<")
        THEN "body"
      ELSE IF StartsWith(text, head \o "(): Promise<")
        THEN "plain"
      ELSE "none"

\* the shape the claim gives to (method, params present, body present)
ShapeTable(method, hasParams, hasBody) ==
  IF method = "GET" /\ hasParams THEN "get-params"
  ELSE IF method = "DELETE" /\ hasParams THEN "delete-params"
  ELSE IF method \in {"POST", "PUT"} /\ hasBody THEN "body"
  ELSE "plain"

\* C3: shape selection.  generateMethod emits exactly one method, and its
\* shape is decided by (method, params present, body present) alone: GET with
\* params takes a params object with every parameter optional and the default
\* {}; DELETE with params takes a params object with no default; POST or PUT
\* with body takes a data object and sends it as the JSON payload; with
\* neither params nor body the method takes no argument and issues the
\* descriptor's verb to its path.
C3_ShapeSelection ==
  call.fn = "generateMethod" =>
    LET e == call.endpoint
        text == call.result
        shape == ShapeOf(text, call.name)
    IN  /\ Cardinality(Occurrences(text, "async ")) = 1
        /\ shape = ShapeTable(e.method, e.hasParams, e.hasBody)
        /\ (e.method = "GET" /\ e.hasParams) =>
             /\ shape = "get-params"
             /\ \A i \in 1..Len(e.params) :
                  Includes(text, "\n    " \o e.params[i].key \o "?: ")
             /\ Includes(text, "'" \o e.path \o "' + (queryString ? '?' + queryString : ''), {\n      method: 'GET'\n")
        /\ (e.method = "DELETE" /\ e.hasParams) =>
             /\ shape = "delete-params"
             /\ ~Includes(text, "= {}")
             /\ \A i \in 1..Len(e.params) :
                  Includes(text, "\n    " \o e.params[i].key \o ": ")
             /\ Includes(text, "'" \o e.path \o "?' + query.toString(), {\n      method: 'DELETE'\n")
        /\ (e.method \in {"POST", "PUT"} /\ e.hasBody) =>
             /\ shape = "body"
             /\ Includes(text, "'" \o e.path \o "', {\n      method: '" \o e.method
                               \o "',\n      body: JSON.stringify(data)\n")
        /\ (~e.hasParams /\ ~e.hasBody) =>
             /\ shape = "plain"
             /\ Includes(text, "'" \o e.path \o "', {\n      method: '" \o e.method \o "'\n")

\* a DELETE descriptor with params has been rendered in the DELETE shape
C3_Witness ==
  /\ call.fn = "generateMethod"
  /\ call.endpoint.method = "DELETE"
  /\ call.endpoint.hasParams
  /\ ~call.endpoint.hasBody
  /\ ShapeOf(call.result, call.name) = "delete-params"

\* C4: shape exclusivity is enforced.  A descriptor that populates both params
\* and body is rejected: generateMethod emits no method for it.
C4_BothRejected ==
  (call.fn = "generateMethod" /\ call.endpoint.hasParams /\ call.endpoint.hasBody) =>
    ShapeOf(call.result, call.name) = "none"

\* the README's count of endpoints
ShippedCount == 28

\* C5: order preservation.  generateBackendClient emits exactly one method per
\* catalog entry (28 for the shipped catalog), each named by its entry's key,
\* in the order of the catalog: a reordered catalog gives the methods in the
\* new order.
C5_OrderPreserved ==
  call.fn = "generateBackendClient" =>
    LET es == call.endpoints
        text == call.result
        at(i) == IndexOf(text, "\n  async " \o es[i].name \o "(")
    IN  /\ Cardinality(Occurrences(text, "\n  async ")) = Len(es)
        /\ \A i \in 1..Len(es) : at(i) > 0
        /\ \A i \in 1..(Len(es) - 1) : at(i) < at(i + 1)
        /\ es = ENDPOINTS => Len(es) = ShippedCount

\* a catalog that starts with deleteUser has been rendered, deleteUser first
C5_Witness ==
  /\ call.fn = "generateBackendClient"
  /\ call.endpoints[1].name = "deleteUser"
  /\ call.endpoints[PermSize].name = "getUsersByAccountId"
  /\ IndexOf(call.result, "\n  async deleteUser(") > 0
  /\ IndexOf(call.result, "\n  async deleteUser(")
       < IndexOf(call.result, "\n  async getUsersByAccountId(")

---------------------------------------------------------------------------
(* Claims about the tool-call handler, checked under SpecServer *)

---------------------------------------------------------------------------
(* Claims about the emitted client, checked under SpecClient *)

\* C7: base URL per environment.  With no override variable set, the client
\* generated for an environment resolves its base URL to the fixed default
\* of that environment.
C7_BaseUrlPerEnvironment ==
  (client.constructed /\ ~Truthy(clientEnv.KALENDIS_API_URL)) =>
    client.this.baseUrl = BASE_URLS(Undefined)[clientEnv.target]

\* C8: required-credential guard.  Constructing KalendisClient with an empty
\* or absent apiKey throws and leaves no client object; every network call
\* is issued by a client whose apiKey is a non-empty string, and carries it.
C8_CredentialGuard ==
  /\ (outcome.op = "constructor" /\ outcome.apiKey \in {Undefined, Str("")}) =>
       (outcome.threw /\ ~client.constructed /\ sent = << >>)
  /\ client.constructed =>
       (client.this.apiKey.t = "string" /\ client.this.apiKey.v # "")
  /\ \A i \in 1..Len(sent) :
       /\ client.constructed
       /\ sent[i].headers.xApiKey = client.this.apiKey
       /\ sent[i].headers.xApiKey.v # ""

\* the constructor has been called with the empty string and has thrown
C8_Witness ==
  /\ outcome.op = "constructor"
  /\ outcome.apiKey = Str("")
  /\ outcome.threw
  /\ outcome.value.type = "Error"
  /\ ~client.constructed
  /\ sent = << >>

\* the message member, else the error member, of a JSON object body, else
\* the status text; a member that is absent or empty counts as none
BodyDetail(response) ==
  IF response.body.kind = "object" /\ response.body.message.t = "string"
     /\ response.body.message.v # ""
    THEN response.body.message.v
  ELSE IF response.body.kind = "object" /\ response.body.error.t = "string"
          /\ response.body.error.v # ""
    THEN response.body.error.v
  ELSE response.statusText

\* what the claim says of the responses that are no 2xx
NonSuccessMapped(response, threw, value) ==
  /\ response.status = 401 =>
       /\ threw
       /\ value = [ type |-> "Error",
                    message |-> "Authentication failed: Invalid or missing API key" ]
  /\ response.status = 403 =>
       /\ threw
       /\ value = [ type |-> "Error",
                    message |-> "Permission denied: Your API key does not have access to this resource" ]
  /\ (response.status \notin 200..299 /\ response.status \notin {401, 403}) =>
       /\ threw
       /\ value = [ type |-> "Error",
                    message |-> "Kalendis API Error (" \o ToString(response.status)
                                \o "): " \o BodyDetail(response) ]

\* C9 as stated: status 401 raises the 'Authentication failed' error and 403
\* the 'Permission denied' error whatever the body holds, every other non-2xx
\* status raises an error made of the body's message, else its error, else
\* the status text, and a 2xx response raises no error.
C9_StatusMappingAsStated ==
  (outcome.op = "request" /\ outcome.settled = "response") =>
    /\ NonSuccessMapped(outcome.response, outcome.threw, outcome.value)
    /\ outcome.response.status \in 200..299 => ~outcome.threw

\* C9, amended: as stated for the responses that are no 2xx; a 2xx response
\* raises no HTTP error: its parsed JSON body is returned, and only a body
\* that cannot be read as JSON is raised, as the reader's own error.
C9_StatusMapping ==
  (outcome.op = "request" /\ outcome.settled = "response") =>
    /\ NonSuccessMapped(outcome.response, outcome.threw, outcome.value)
    /\ outcome.response.status \in 200..299 =>
         IF outcome.response.body.kind \in {"object", "null"}
         THEN ~outcome.threw /\ outcome.value = outcome.response.body
         ELSE outcome.threw /\ outcome.value.type \in {"SyntaxError", "TypeError"}

\* a 401 whose JSON body carries a message has raised 'Authentication failed'
C9_Witness ==
  /\ outcome.op = "request"
  /\ outcome.settled = "response"
  /\ outcome.response.status = 401
  /\ outcome.response.body.kind = "object"
  /\ outcome.response.body.message = Str("User not found")
  /\ outcome.threw
  /\ StartsWith(outcome.value.message, "Authentication failed")

\* C10: transport failures are told apart from HTTP errors.  Every failure
\* of the network call is reported with 'Cannot connect to Kalendis API at
\* <base URL>', and no HTTP response of any status is reported with it.
C10_TransportClassified ==
  outcome.op = "request" =>
    /\ outcome.settled = "rejection" =>
         /\ outcome.threw
         /\ outcome.value.type = "Error"
         /\ outcome.value.message
              = "Cannot connect to Kalendis API at " \o client.this.baseUrl
                \o ". Please ensure the service is running."
    /\ outcome.settled = "response" =>
         ~(outcome.threw /\ StartsWith(outcome.value.message, "Cannot connect to Kalendis API"))

---------------------------------------------------------------------------
(* Claims about the emitted proxy client, checked under Spec *)

\* the naming convention: the name contains availability or booking, in any case
MatchesConvention(name) ==
  \/ Includes(ToLowerCase(name), "availability")
  \/ Includes(ToLowerCase(name), "booking")

\* C11: proxy timezone localization.  Every function of the generated proxy
\* client whose name contains availability or booking, in any case, passes
\* the response of a successful call through convertToLocalTime before it
\* returns it, and no function converts a response that is not ok.
C11_TimezoneLocalization ==
  call.fn = "api" =>
    /\ (MatchesConvention(call.name) /\ ~call.threw) => call.converted
    /\ ~Ok(call.response) => ~call.converted


---------------------------------------------------------------------------
(* Claims about the emitted route handlers, checked under Spec *)

\* C12: uniform error mapping.  In the output of each of the four route
\* generators, every handler answers a direct-client call that throws with
\* the payload { error: <the error's message> } and the status 500.
C12_UniformErrorMapping ==
  (call.fn = "route" /\ call.result.called /\ call.clientOutcome.threw) =>
    /\ call.result.answered
    /\ call.result.status = 500
    /\ call.result.payload = [ error |-> call.clientOutcome.value.message ]

\* C13: parity of the four frameworks.  The handlers generated for the same
\* direct-client method take the forwarded parameters from the same part of
\* the request, and end the same way on the same request and the same
\* outcome of the direct-client call, in every framework.
C13_FrameworkParity ==
  call.fn = "route" =>
    \A h \in RouteHandlers :
      h.method = call.handler.method =>
        /\ h.path = call.handler.path
        /\ h.query = call.handler.query
        /\ h.wholeQuery = call.handler.wholeQuery
        /\ h.wholeBody = call.handler.wholeBody
        /\ HandlerRun(h, call.absent, call.clientOutcome) = call.result


\* the three files by role: file name, class name, import path
NestjsRoles ==
  << [ file |-> "kalendis.controller.ts", class |-> "KalendisController",
       from |-> "'./kalendis.controller'" ],
     [ file |-> "kalendis.service.ts", class |-> "KalendisService",
       from |-> "'./kalendis.service'" ],
     [ file |-> "kalendis.module.ts", class |-> "KalendisModule",
       from |-> "'./kalendis.module'" ] >>

\* content imports the class of role by its fixed name from its fixed path
ImportsRole(content, role) ==
  Includes(content, "import { " \o role.class \o " } from " \o role.from \o ";")

\* content names the class or the path of role anywhere
NamesRole(content, role) ==
  Includes(content, role.class) \/ Includes(content, role.from)

\* exactly the three files, each declaring the class of its role
ThreeNestjsFiles(files) ==
  /\ Len(files) = 3
  /\ \A i \in 1..3 :
       /\ files[i][1] = NestjsRoles[i].file
       /\ Cardinality(Occurrences(files[i][2], "export class " \o NestjsRoles[i].class \o " ")) = 1

\* C14 as stated: generateNestJSModule returns exactly the three files
\* kalendis.controller.ts, kalendis.service.ts and kalendis.module.ts, and
\* each of the three references the other two by their fixed names and paths.
C14_ArtifactSetAsStated ==
  call.fn = "generateNestJSModule" =>
    /\ ThreeNestjsFiles(call.result)
    /\ \A i, j \in 1..3 :
         i # j => ImportsRole(call.result[i][2], NestjsRoles[j])

\* C14, amended: generateNestJSModule returns exactly the three files, each
\* declaring the class of its fixed name; the module file imports the
\* controller and the service by their fixed names and paths and registers
\* them, the controller imports the service and is handed it in its
\* constructor; the service names neither of the other two files, and no file
\* names the module.
C14_ArtifactSet ==
  call.fn = "generateNestJSModule" =>
    LET controller == call.result[1][2]
        service == call.result[2][2]
        module == call.result[3][2]
    IN  /\ ThreeNestjsFiles(call.result)
        /\ ImportsRole(module, NestjsRoles[1])
        /\ ImportsRole(module, NestjsRoles[2])
        /\ Includes(module, "controllers: [KalendisController],")
        /\ Includes(module, "providers: [KalendisService],")
        /\ ImportsRole(controller, NestjsRoles[2])
        /\ Includes(controller, "constructor(private readonly kalendisService: KalendisService) {}")
        /\ ~NamesRole(controller, NestjsRoles[3])
        /\ ~NamesRole(service, NestjsRoles[1])
        /\ ~NamesRole(service, NestjsRoles[3])

\* the three files have been generated with a types path of the caller's
C14_Witness ==
  /\ call.fn = "generateNestJSModule"
  /\ call.typesPath = Str("./kalendis-types")
  /\ Len(call.result) = 3
  /\ call.result[3][1] = "kalendis.module.ts"
  /\ Includes(call.result[1][2], "import * as Types from './kalendis-types';")
  /\ Includes(call.result[2][2], "import * as Types from './kalendis-types';")


---------------------------------------------------------------------------
(* Claims about the arguments and the results of tool calls, checked       *)
(* under SpecServer                                                        *)

FrameworkError == "Error: Valid framework is required (nextjs, express, fastify, or nestjs)"

EnvironmentError == "Error: Valid environment is required (production, staging, development)"

\* C15: framework validation.  A generate-api-routes call whose framework
\* argument is absent, is no string, or is none of nextjs, express, fastify,
\* nestjs returns one message that names the four frameworks, and no text
\* of any route generator.
C15_FrameworkValidation ==
  \A i \in 1..Len(log) :
    LET framework == log[i].request.arguments.framework
    IN  ( /\ log[i].request.name = "generate-api-routes"
          /\ \/ framework = Undefined
             \/ framework.t # "string"
             \/ framework.v \notin Frameworks ) =>
          /\ log[i].content = << [ type |-> "text", text |-> FrameworkError ] >>
          /\ \A f \in Frameworks : Includes(log[i].content[1].text, f)
          /\ ~Includes(log[i].content[1].text, "kalendisClient")

\* routes have been asked for the framework graphql, and refused
C15_Witness ==
  \E i \in 1..Len(log) :
    /\ log[i].request.name = "generate-api-routes"
    /\ log[i].request.arguments.framework = Str("graphql")
    /\ log[i].content[1].text = FrameworkError

\* C16: environment default and validation.  A generate-backend-client call
\* with no environment argument returns the client generated for production;
\* a call whose environment argument is present and is none of production,
\* staging, development returns an error message and no client text.
C16_EnvironmentValidation ==
  \A i \in 1..Len(log) :
    LET args == log[i].request.arguments
        text == log[i].content[1].text
    IN  log[i].request.name = "generate-backend-client" =>
          /\ args.environment = Undefined =>
               text = generateBackendClient(
                        [ environment |-> "production",
                          typesImportPath |-> args.typesImportPath ], ENDPOINTS)
          /\ ( /\ args.environment # Undefined
               /\ ~(args.environment.t = "string" /\ args.environment.v \in Environments) ) =>
               /\ StartsWith(text, "Error: ")
               /\ ~Includes(text, "class KalendisClient")

\* what a complete artifact of a tool begins and ends with
IsCompleteArtifact(name, text) ==
  \/ /\ name = "generate-backend-client"
     /\ StartsWith(text, "import * as Types from '")
     /\ EndsWith(text, "\n}\n\nexport default KalendisClient;\n")
  \/ /\ name = "generate-frontend-client"
     /\ StartsWith(text, "import * as Types from '")
     /\ EndsWith(text, "\n};\n\nexport default api;\n")
  \/ /\ name = "generate-api-routes"
     /\ \/ StartsWith(text, "// File: app/api/users/route.ts\n") /\ EndsWith(text, "\n}")
        \/ StartsWith(text, "import { Request, Response, Router } from 'express';")
             /\ EndsWith(text, "\nexport default router;\n")
        \/ StartsWith(text, "import { FastifyInstance, FastifyReply, FastifyRequest } from 'fastify';")
             /\ EndsWith(text, "\n}\n")
        \/ StartsWith(text, "// File: kalendis.controller.ts\n")
             /\ EndsWith(text, "export class KalendisModule {}\n")
  \/ /\ name = "list-endpoints"
     /\ StartsWith(text, "Kalendis API Endpoints:\n\n")
     /\ EndsWith(text, ENDPOINTS[Len(ENDPOINTS)].response.description)

\* the single message of a failed call
IsErrorMessage(name, text) ==
  \/ text = FrameworkError /\ name = "generate-api-routes"
  \/ text = EnvironmentError /\ name = "generate-backend-client"
  \/ /\ text = "Error: Unknown tool: " \o name
     /\ name \notin { "generate-backend-client", "generate-frontend-client",
                      "generate-api-routes", "list-endpoints" }

\* C17: all-or-nothing results.  Every call is answered with exactly one text
\* item, which is either a complete artifact of the tool called or a single
\* message 'Error: <reason>' ('Unknown tool: <name>' for a name outside the
\* four tools), never both and never a part of an artifact.
C17_AllOrNothing ==
  \A i \in 1..Len(log) :
    LET name == log[i].request.name
        content == log[i].content
    IN  /\ Len(content) = 1
        /\ content[1].type = "text"
        /\ IsCompleteArtifact(name, content[1].text) # IsErrorMessage(name, content[1].text)

\* a tool outside the four has been called and answered with the one message
C17_Witness ==
  \E i \in 1..Len(log) :
    /\ log[i].request.name = "generate-graphql-client"
    /\ log[i].content = << [ type |-> "text",
                             text |-> "Error: Unknown tool: generate-graphql-client" ] >>


\* text has piece at position pos
HasAt(text, pos, piece) == SubSeq(text, pos, pos + Len(piece) - 1) = piece

\* the lines of the block of a catalog entry: its name, its verb and path,
\* its description, the names of its query parameters, the names of its body
\* fields, its response type with the description of the response
BlockLines(e) ==
  LET names(fields) == Join([ k \in 1..Len(fields) |-> fields[k].key ], ", ")
  IN  << e.name \o ":",
         "  " \o e.method \o " " \o e.path,
         "  " \o e.description >>
      \o (IF e.hasParams THEN << "    Query params: " \o names(e.params) >> ELSE << >>)
      \o (IF e.hasBody THEN << "    Body params: " \o names(e.body) >> ELSE << >>)
      \o << "    Response: " \o e.response.type \o " - " \o e.response.description >>

\* from position pos on, text is made of the blocks of the catalog entries
\* i, i + 1, ..., each line by line, a blank line between two blocks, and
\* nothing after the last
RECURSIVE BlocksFrom(_, _, _)
BlocksFrom(text, pos, i) ==
  IF i > Len(ENDPOINTS) THEN pos = Len(text) + 3
  ELSE LET block == Join(BlockLines(ENDPOINTS[i]), "\n")
       IN  /\ HasAt(text, pos, block)
           /\ i < Len(ENDPOINTS) => HasAt(text, pos + Len(block), "\n\n")
           /\ BlocksFrom(text, pos + Len(block) + 2, i + 1)

\* C18: endpoint listing.  list-endpoints returns one block for each catalog
\* entry, in the order of the catalog, none left out and none twice; a block
\* gives the entry's name, verb, path and description, the names of its
\* query parameters or body fields, and its response type with description.
C18_EndpointListing ==
  \A i \in 1..Len(log) :
    log[i].request.name = "list-endpoints" =>
      LET text == log[i].content[1].text
          head == "Kalendis API Endpoints:\n\n"
      IN  /\ Len(log[i].content) = 1
          /\ HasAt(text, 1, head)
          /\ BlocksFrom(text, Len(head) + 1, 1)

\* the catalog has been listed, getUsersByAccountId first and updateAccount last
C18_Witness ==
  \E i \in 1..Len(log) :
    /\ log[i].request.name = "list-endpoints"
    /\ StartsWith(log[i].content[1].text,
                  "Kalendis API Endpoints:\n\ngetUsersByAccountId:\n  GET /v1/user/getUsersByAccountId\n")
    /\ Includes(log[i].content[1].text, "\n\nupdateAccount:\n  PUT /v1/account/updateAccount\n")
    /\ Includes(log[i].content[1].text, "\n    Body params: ")


---------------------------------------------------------------------------
(* Claims about the catalog, checked under Spec on the catalogs that the   *)
(* client assembler is given                                               *)

\* a descriptor has params only on GET or DELETE and body only on POST or
\* PUT, and never both
OneOfCompatible(e) ==
  /\ ~(e.hasParams /\ e.hasBody)
  /\ e.hasParams => e.method \in {"GET", "DELETE"}
  /\ e.hasBody => e.method \in {"POST", "PUT"}

\* C19 as stated: every descriptor of the shipped catalog has exactly one of
\* params and body, never both, params only on GET or DELETE and body only
\* on POST or PUT.
C19_OneOfAsStated ==
  call.fn = "generateBackendClient" =>
    \A i \in 1..Len(call.endpoints) :
      /\ OneOfCompatible(call.endpoints[i])
      /\ call.endpoints[i].hasParams \/ call.endpoints[i].hasBody

\* C19, amended: every descriptor of the shipped catalog has at most one of
\* params and body, never both, params only on GET or DELETE and body only
\* on POST or PUT; a GET descriptor may have neither.
C19_OneOf ==
  call.fn = "generateBackendClient" =>
    \A i \in 1..Len(call.endpoints) :
      /\ OneOfCompatible(call.endpoints[i])
      /\ (~call.endpoints[i].hasParams /\ ~call.endpoints[i].hasBody) =>
           call.endpoints[i].method = "GET"

\* the whole shipped catalog has been rendered: it holds descriptors with
\* params, with body and with neither
C19_Witness ==
  /\ call.fn = "generateBackendClient"
  /\ call.endpoints = ENDPOINTS
  /\ \E i \in 1..Len(ENDPOINTS) : ENDPOINTS[i].hasParams /\ ENDPOINTS[i].method = "DELETE"
  /\ \E i \in 1..Len(ENDPOINTS) : ENDPOINTS[i].hasBody /\ ENDPOINTS[i].method = "PUT"
  /\ \E i \in 1..Len(ENDPOINTS) : ~ENDPOINTS[i].hasParams /\ ~ENDPOINTS[i].hasBody


---------------------------------------------------------------------------
(* Claims about the credential of the emitted client, checked under        *)
(* SpecClient                                                              *)

\* the headers every network call of a client with this key has to carry
CredentialHeaders(apiKey) ==
  [ xApiKey |-> apiKey, contentType |-> Str("application/json") ]

\* every method rendered for the shipped catalog holds one this.request call
\* and no fetch of its own, and the call it writes leaves the two headers of
\* the wrapper as they are; the emitted class calls fetch once, in request
MethodsGoThroughRequest ==
  /\ \A i \in 1..Len(ENDPOINTS) :
       LET text == generateMethod(ENDPOINTS[i].name, ENDPOINTS[i])
           c == RequestCallOf(text)
       IN  /\ Cardinality(Occurrences(text, "this.request<")) = 1
           /\ ~Includes(text, "fetch(")
           /\ c.endpoint \in { ENDPOINTS[i].path, ENDPOINTS[i].path \o "?" }
           /\ c.options.method = ENDPOINTS[i].method
           /\ \A key \in { k \in ApiKeys : Truthy(k) } :
                FetchCall([ apiKey |-> key, baseUrl |-> "" ], c.endpoint, c.options).headers
                  = CredentialHeaders(key)
  /\ LET class == generateBaseClient("production", "../types")
         calls == Occurrences(class, "fetch(")
     IN  /\ Cardinality(calls) = 1
         /\ \A at \in calls : IndexOf(class, "private async request<T>(") \in 1..at

\* C20: credential on every request.  Every method generated for the catalog
\* issues its network call through the one request wrapper and passes no
\* headers of its own, and every network call sent carries x-api-key equal to
\* the key the constructor was given, together with Content-Type
\* application/json.
C20_CredentialOnEveryRequest ==
  /\ MethodsGoThroughRequest
  /\ \A i \in 1..Len(sent) :
       /\ client.constructed
       /\ sent[i].headers = CredentialHeaders(client.this.apiKey)
       /\ \E c \in RequestCalls : sent[i] = FetchCall(client.this, c.endpoint, c.options)

\* a client built with key-2 has issued a GET and then a POST, both settled
\* or in flight, each carrying key-2
C20_Witness ==
  /\ client.constructed
  /\ client.this.apiKey = Str("key-2")
  /\ Len(sent) = 2
  /\ sent[1].method = "GET"
  /\ sent[2].method = "POST"
  /\ sent[2].headers.xApiKey = Str("key-2")
  /\ outcome.op = "request"


---------------------------------------------------------------------------
(* Claims about the documented usage of the direct client, checked under   *)
(* Spec                                                                    *)

\* the methods the README's backend-client example calls on the client
ReadmeBackendExampleCalls == {"getUsers", "createUser"}

\* the names of the methods of an emitted class
EmittedMethodNames(text) ==
  { Between(SubSeq(text, m, Len(text)), "\n  async ", "(") : m \in Occurrences(text, "\n  async ") }

\* C21: documented usage matches the generated client.  Every method the
\* README's backend-client example calls (getUsers, createUser) is a method
\* that generateBackendClient emits, its name being a key of the catalog.
C21_DocumentedUsage ==
  call.fn = "generateBackendClient" =>
    \A m \in ReadmeBackendExampleCalls :
      /\ m \in EmittedMethodNames(call.result)
      /\ \E i \in 1..Len(call.endpoints) : call.endpoints[i].name = m


---------------------------------------------------------------------------
(* Claims about the emitted methods at run time, checked under Spec *)

\* the query string of the entries of an argument that satisfy keep
QueryOf(arg, keep(_)) ==
  LET kept == SelectSeq(arg.entries, keep)
  IN  QueryToString([ i \in 1..Len(kept) |->
                        [ key |-> kept[i].key, value |-> ToStr(kept[i].value) ] ])

IsDefined(en) == en.value.t # "undefined"

AnyEntry(en) == TRUE

\* C22 as stated: the method emitted for a DELETE descriptor with params
\* serializes all entries of the params object, an entry whose value is
\* undefined too, and always issues DELETE to path + '?' + query.
C22_DeleteSerializationAsStated ==
  (call.fn = "method" /\ call.endpoint.method = "DELETE" /\ call.arg.t = "object") =>
    /\ ~call.result.threw
    /\ call.result.value.method = "DELETE"
    /\ call.result.value.endpoint = call.endpoint.path \o "?" \o QueryOf(call.arg, AnyEntry)

\* C22, amended: the method emitted for a DELETE descriptor with params
\* serializes exactly the entries whose value is not undefined, and always
\* issues DELETE to path + '?' + query, the query being empty or not.
C22_DeleteSerialization ==
  (call.fn = "method" /\ call.endpoint.method = "DELETE" /\ call.arg.t = "object") =>
    /\ ~call.result.threw
    /\ call.result.value.method = "DELETE"
    /\ call.result.value.endpoint = call.endpoint.path \o "?" \o QueryOf(call.arg, IsDefined)

\* a DELETE method has been called with one entry undefined and one defined,
\* and has requested the path with the defined entry alone
C22_Witness ==
  /\ call.fn = "method"
  /\ call.endpoint.method = "DELETE"
  /\ call.arg.t = "object"
  /\ Len(call.arg.entries) = 2
  /\ call.arg.entries[1].value = Undefined
  /\ call.arg.entries[2].value = Str("u 1")
  /\ ~call.result.threw
  /\ call.result.value.endpoint
       = call.endpoint.path \o "?" \o call.arg.entries[2].key \o "=u+1"

\* C23: GET serialization.  The method emitted for a GET descriptor with
\* params serializes exactly the entries whose value is not undefined, and
\* requests path + '?' + query when the query string is non-empty and the
\* bare path when it is empty, also when it is called with no argument.
C23_GetSerialization ==
  (call.fn = "method" /\ call.endpoint.method = "GET") =>
    LET query == IF call.arg.t = "undefined" THEN "" ELSE QueryOf(call.arg, IsDefined)
    IN  /\ ~call.result.threw
        /\ call.result.value.method = "GET"
        /\ call.result.value.endpoint =
             IF query = "" THEN call.endpoint.path ELSE call.endpoint.path \o "?" \o query

\* a GET method has been called with no argument and has requested the bare path
C23_Witness ==
  /\ call.fn = "method"
  /\ call.endpoint.method = "GET"
  /\ call.arg = Undefined
  /\ ~call.result.threw
  /\ call.result.value = [ endpoint |-> call.endpoint.path, method |-> "GET" ]


---------------------------------------------------------------------------
(* Claims about the text of the emitted methods, checked under Spec *)

\* the type the claim gives to a body field
BodyFieldType(type) ==
  IF type = "DaysOfWeek[]" THEN "Types.DaysOfWeek[]"
  ELSE IF EndsWith(type, "[]") THEN SubSeq(type, 1, Len(type) - 2) \o "[]"
  ELSE IF type \in {"number", "boolean"} THEN type
  ELSE "string"

\* the property the claim gives to a body field
BodyFieldLine(f) ==
  IF f.required THEN "    " \o f.key \o ": " \o BodyFieldType(f.type) \o ";"
  ELSE "    " \o f.key \o "?: " \o BodyFieldType(f.type) \o " | undefined;"

C25_ReturnType ==
  call.fn = "generateMethod" =>
    LET T == mapResponseType(call.endpoint.response.type, TRUE)
        text == call.result
    IN  /\ Cardinality(Occurrences(text, "): Promise<")) = 1
        /\ Cardinality(Occurrences(text, "this.request<")) = 1
        /\ Includes(text, "): Promise<" \o T \o "> {\n")
        /\ Includes(text, "\n    return this.request<" \o T \o ">('" \o call.endpoint.path)

\* getAccount, of the plain shape, has been rendered with Types.Account twice
C25_Witness ==
  /\ call.fn = "generateMethod"
  /\ call.name = "getAccount"
  /\ ~call.endpoint.hasParams /\ ~call.endpoint.hasBody
  /\ Includes(call.result, "async getAccount(): Promise<Types.Account> {\n")
  /\ Includes(call.result, "return this.request<Types.Account>('/v1/account/getAccount', {")


---------------------------------------------------------------------------
(* Claims about the route handlers and the catalog, checked under Spec *)

\* the descriptors of the catalog that carry a name
DescriptorsNamed(name) ==
  { ENDPOINTS[i] : i \in { k \in 1..Len(ENDPOINTS) : ENDPOINTS[k].name = name } }

\* the field names a descriptor declares in params or body
FieldKeys(e) ==
  { e.params[i].key : i \in 1..Len(e.params) } \cup { e.body[i].key : i \in 1..Len(e.body) }

\* the field names a descriptor marks required
RequiredKeys(e) ==
  { e.params[i].key : i \in { k \in 1..Len(e.params) : e.params[k].required } }
    \cup { e.body[i].key : i \in { k \in 1..Len(e.body) : e.body[k].required } }

\* C26: route extraction follows the descriptor.  The argument object a
\* handler forwards to the direct-client method names its fields as the
\* catalog descriptor of that operation does, and every field the
\* descriptor marks required is supplied under the descriptor's name: by
\* name from the path or the query, or with the whole query or body.
C26_RouteExtraction ==
  call.fn = "route" =>
    LET h == call.handler
        byName == h.path \cup h.query
    IN  \E e \in DescriptorsNamed(h.method) :
          /\ byName \subseteq FieldKeys(e)
          /\ \A k \in RequiredKeys(e) : k \in byName \/ h.wholeQuery \/ h.wholeBody


\* the direct-client methods the handlers of a framework invoke
InvokedBy(framework) ==
  UNION { ClientMethodsOf(h) : h \in { x \in RouteHandlers : x.framework = framework } }

\* C28: routes reference exactly the catalog.  For each of the four
\* frameworks the direct-client methods the generated handlers invoke
\* (through the NestJS service for NestJS) are exactly the methods that
\* generateBackendClient emits for the catalog: no handler calls a method
\* that is not emitted, and every catalog operation has a handler.
C28_RoutesReferenceCatalog ==
  /\ call.fn = "route" =>
       /\ ClientMethodsOf(call.handler) # {}
       /\ \A m \in ClientMethodsOf(call.handler) : DescriptorsNamed(m) # {}
  /\ (call.fn = "generateBackendClient" /\ call.endpoints = ENDPOINTS) =>
       \A f \in Frameworks : InvokedBy(f) = EmittedMethodNames(call.result)

\* the client has been generated for the shipped catalog: its 28 methods
\* are those the NestJS handlers reach through the service
C28_Witness ==
  /\ call.fn = "generateBackendClient"
  /\ call.endpoints = ENDPOINTS
  /\ Cardinality(EmittedMethodNames(call.result)) = ShippedCount
  /\ "updateAccount" \in InvokedBy("nestjs")
  /\ Cardinality(NestjsServiceMethods) = ShippedCount


---------------------------------------------------------------------------
(* Claims about the proxy client and the routes, checked under Spec *)

\* the catalog operation a function of the proxy client mirrors: the
\* operation of its own name, or the one it renames
Mirrors(name) ==
  CASE name = "getUsers" -> "getUsersByAccountId"
    [] name = "createUser" -> "addUser"
    [] name = "getBookings" -> "getBooking"
    [] name = "createBooking" -> "addBooking"
    [] OTHER -> name

\* C29: proxy client and routes agree.  The verb and path a function of the
\* generated proxy client requests is served, in the routes generated for
\* each of the four frameworks, by a handler that forwards to the catalog
\* operation the function mirrors.
C29_ProxyAndRoutesAgree ==
  call.fn = "proxyRequest" =>
    /\ DescriptorsNamed(Mirrors(call.name)) # {}
    /\ Mirrors(call.name) \in call.reaches


---------------------------------------------------------------------------
(* Claims about the file writer, checked under SpecWriter *)

\* call i enters writeFile in this step
Enters(i) == writers[i].pc = "idle" /\ writers'[i].pc # "idle"

\* call i goes on after its prompt in this step
Resumes(i) == writers[i].pc = "answered" /\ writers'[i].pc = "done"

\* what each call of writeFile does, by the claim
OverwriteConfirmationStep ==
  \A i \in 1..MaxWriters :
    LET w == writers'[i]
        f == w.fullPath
    IN  /\ (Enters(i) /\ ~disk.files[f].exists) =>
             /\ ~w.prompted
             /\ w.pc = "done"
             /\ disk'.files[f] = File(w.content)
             /\ Dirname(f) \in disk'.dirs
             /\ \A g \in FullPaths \ {f} : disk'.files[g] = disk.files[g]
        /\ (Enters(i) /\ disk.files[f].exists) =>
             /\ w.prompted
             /\ w.pc = "prompting"
             /\ disk' = disk
        /\ (Resumes(i) /\ w.prompted /\ w.answer \in {"y", "Y"}) =>
             /\ disk'.files[f] = File(w.content)
             /\ \A g \in FullPaths \ {f} : disk'.files[g] = disk.files[g]
        /\ (Resumes(i) /\ w.prompted /\ w.answer \notin {"y", "Y"}) =>
             /\ disk' = disk
             /\ \E k \in 1..Len(w.logged) : w.logged[k] = w.content

\* C27: overwrite confirmation.  writeFile replaces the content of a file
\* that exists when it is called only if the prompt is answered exactly y
\* or Y; on any other answer the file is left unchanged and the content is
\* printed; when the path does not exist, the file and its missing parent
\* directory are created without a prompt.
C27_OverwriteConfirmation == [][OverwriteConfirmationStep]_vars

\* a call found its file, was answered yes, and has printed the content and
\* left the file as it was
C27_Witness ==
  \E i \in 1..MaxWriters :
    /\ writers[i].pc = "done"
    /\ writers[i].prompted
    /\ writers[i].answer = "yes"
    /\ writers[i].logged = ContentLog(writers[i].content)
    /\ disk.files[writers[i].fullPath] = File("old")

\* a file that exists changes only in the step in which a call goes on
\* after its own prompt, answered y or Y
ReplacedOnlyOnYes ==
  \A f \in FullPaths :
    (disk.files[f].exists /\ disk'.files[f] # disk.files[f]) =>
      \E i \in 1..MaxWriters :
        /\ Resumes(i)
        /\ writers[i].fullPath = f
        /\ writers[i].prompted
        /\ writers[i].answer \in {"y", "Y"}
        /\ disk'.files[f] = File(writers[i].content)

\* of the calls made on one path, at most one has written without a prompt
OneUnpromptedWrite ==
  \A i, j \in 1..MaxWriters :
    (/\ i # j
     /\ writers[i].pc # "idle" /\ writers[j].pc # "idle"
     /\ writers[i].fullPath = writers[j].fullPath) =>
      writers[i].prompted \/ writers[j].prompted

\* C30: overlapping writeFile calls.  In every interleaving of the calls on
\* one path, the content of a file that exists is replaced only by a call
\* whose own prompt was answered y or Y; where the path is absent at first,
\* the call that runs first writes without a prompt and every other call
\* prompts before it can replace that content.
C30_OverlappingWrites == [][ReplacedOnlyOnYes]_vars /\ []OneUnpromptedWrite

\* two calls on one file that was absent: the first has written without a
\* prompt, the second was prompted, answered Y, and has replaced the content
C30_Witness ==
  \E i, j \in 1..MaxWriters :
    /\ i # j
    /\ writers[i].fullPath = writers[j].fullPath
    /\ writers[i].pc = "done" /\ ~writers[i].prompted
    /\ writers[j].pc = "done" /\ writers[j].prompted /\ writers[j].answer = "Y"
    /\ writers[i].content # writers[j].content
    /\ disk.files[writers[j].fullPath] = File(writers[j].content)


===========================================================================
